---- MODULE Spec2Model ----
(***************************************************************************)
(* Verification model of the Public-Incentives core: the managed OpenAI    *)
(* client (budget guard, response cache, cost ledger), the document cost   *)
(* tracker, context shrinking, and the matching service's deterministic    *)
(* filter, lexical scorer and ranking.                                     *)
(*                                                                         *)
(* Conventions.                                                            *)
(*  - Text is run-length encoded: a sequence of runs <<char, count>> in    *)
(*    which adjacent runs carry different characters.  The encoding is     *)
(*    lossless; it keeps texts of several hundred thousand characters      *)
(*    small enough to be checked.                                          *)
(*  - Money is counted in micro-EUR.  A price of P EUR per million tokens  *)
(*    is P micro-EUR per token, so (tokens / 1e6) * price = tokens * P.    *)
(*  - Scores are counted in thousandths (1000 = 1.0).                      *)
(***************************************************************************)
EXTENDS Integers, Sequences, FiniteSets, TLC

VARIABLES
    budget,          \* ManagedOpenAIClient.max_per_request_eur (micro-EUR)
    cache,           \* llm_cache table: cache key -> row
    embCache,        \* embedding_cache table: text hash -> row
    ledger,          \* cost_tracking table, append-only
    rtRecords,       \* RealTimeCostTracker.record_request calls so far
    document_costs,  \* DocumentCostTracker.document_costs
    messages,        \* the message list object the caller passed last
    upstream,        \* number of requests that reached the remote endpoints
    calls,           \* number of client calls made
    tagCharged,      \* per document tag: EUR charged by calls carrying it
    last,            \* arguments and outcome of the latest client call
    prev,            \* arguments and outcome of the call before it
    shr,             \* shrink_context harness: input, target, outputs
    flt,             \* _apply_deterministic_filters harness
    bm,              \* _calculate_bm25_score harness
    mt,              \* find_matches harness
    rag,             \* RAGService harness
    oracle,          \* price and exchange-rate caches and their callers
    trk,             \* threads inside DocumentCostTracker methods
    pl,              \* plan_output_tokens harness
    hk               \* cache key harness

clientVars == <<budget, cache, embCache, ledger, rtRecords, document_costs,
                messages, upstream, calls, tagCharged, last, prev>>
vars == <<budget, cache, embCache, ledger, rtRecords, document_costs,
          messages, upstream, calls, tagCharged, last, prev, shr, flt, bm, mt,
          rag, oracle,
                   trk, pl, hk>>

None == "None"

Max(S) == CHOOSE x \in S : \A y \in S : y <= x
Min(S) == CHOOSE x \in S : \A y \in S : x <= y

\* body(v), with v evaluated once: a local variable of the code
Bind(v, body(_)) == CHOOSE r \in {body(x) : x \in {v}} : TRUE

(***************************************************************************)
(* Run-length encoded text.                                                *)
(***************************************************************************)

\* the characters in runs lo..hi of t
RECURSIVE RunsLen(_, _, _)
RunsLen(t, lo, hi) ==
    IF lo > hi THEN 0
    ELSE IF lo = hi THEN t[lo][2]
    ELSE RunsLen(t, lo, (lo + hi) \div 2) + RunsLen(t, (lo + hi) \div 2 + 1, hi)

\* len(text)
TLen(t) == RunsLen(t, 1, Len(t))

\* a + b on strings
Cat(a, b) ==
    IF a = <<>> THEN b
    ELSE IF b = <<>> THEN a
    ELSE IF a[Len(a)][1] = b[1][1]
         THEN SubSeq(a, 1, Len(a) - 1)
              \o << <<b[1][1], a[Len(a)][2] + b[1][2]>> >>
              \o Tail(b)
         ELSE a \o b

\* the k-th smallest element of a set of integers
Nth(S, k) == CHOOSE i \in S : Cardinality({j \in S : j < i}) = k - 1

\* the characters of a Python string literal, one by one
Tup(s) == [i \in 1..Len(s) |-> SubSeq(s, i, i)]

\* characters lo..hi of the tuple cs as a text
RECURSIVE FromRange(_, _, _)
FromRange(cs, lo, hi) ==
    IF lo > hi THEN <<>>
    ELSE IF lo = hi THEN << <<cs[lo], 1>> >>
    ELSE Cat(FromRange(cs, lo, (lo + hi) \div 2),
             FromRange(cs, (lo + hi) \div 2 + 1, hi))

\* a Python string literal as a text
FromString(s) == FromRange(Tup(s), 1, Len(s))

\* the letters str.lower() changes, among those the model's texts use
UpperCase == Tup("ABCDEFGHIJKLMNOPQRSTUVWXYZÃÉÚ")
LowerCase == Tup("abcdefghijklmnopqrstuvwxyzãéú")

\* str.lower(), on the tuple of characters of a string
lower(s) ==
    [i \in 1..Len(s) |->
       IF \E k \in 1..Len(UpperCase) : UpperCase[k] = s[i]
       THEN LowerCase[CHOOSE k \in 1..Len(UpperCase) : UpperCase[k] = s[i]]
       ELSE s[i]]

\* sub in s
In(sub, s) ==
    \E i \in 0..(Len(s) - Len(sub)) : SubSeq(s, i + 1, i + Len(sub)) = sub

\* the number of leading runs of t that fit whole in k characters
WholeRuns(t, k) == Max({j \in 0..Len(t) : RunsLen(t, 1, j) <= k})

\* text[:k] for k >= 0
Take(t, k) ==
    IF k <= 0 \/ t = <<>> THEN <<>>
    ELSE LET j == WholeRuns(t, k)
             rest == k - RunsLen(t, 1, j)
         IN  IF j = Len(t) \/ rest = 0 THEN SubSeq(t, 1, j)
             ELSE SubSeq(t, 1, j) \o << <<t[j + 1][1], rest>> >>

\* text[k:] for k >= 0
Drop(t, k) ==
    IF t = <<>> THEN <<>>
    ELSE IF k <= 0 THEN t
    ELSE LET j == WholeRuns(t, k)
             rest == k - RunsLen(t, 1, j)
         IN  IF j = Len(t) THEN <<>>
             ELSE IF rest = 0 THEN SubSeq(t, j + 1, Len(t))
             ELSE << <<t[j + 1][1], t[j + 1][2] - rest>> >>
                  \o SubSeq(t, j + 2, Len(t))

\* text[-k:] for k >= 0.  Python reads -0 as 0, so text[-0:] is the whole
\* text, and a k beyond the length also yields the whole text.
LastChars(t, k) ==
    IF k = 0 \/ k >= TLen(t) THEN t ELSE Drop(t, TLen(t) - k)

\* the characters \s matches, among those the model's texts use
Whitespace == {" ", "\t", "\n"}
Blank == {" ", "\t"}

\* last run index j >= i such that runs i..j all carry characters of S
StretchEnd(t, i, S) ==
    Max({j \in i..Len(t) : \A k \in i..j : t[k][1] \in S})

\* first run index s <= i such that runs s..i all carry characters of S
StretchStart(t, i, S) ==
    Min({s \in 1..i : \A k \in s..i : t[k][1] \in S})

\* pieces[lo] \o ... \o pieces[hi]
RECURSIVE Flatten(_, _, _)
Flatten(pieces, lo, hi) ==
    IF lo > hi THEN <<>>
    ELSE IF lo = hi THEN pieces[lo]
    ELSE Flatten(pieces, lo, (lo + hi) \div 2)
         \o Flatten(pieces, (lo + hi) \div 2 + 1, hi)

\* re.sub(r"\s+\n", "\n", text): in each maximal stretch of whitespace, the
\* leftmost greedy match runs from the first character of the stretch to
\* its last newline, provided that newline is not the first character.
\* What run i of t leaves in the result:
TrailingSpacePiece(t, i) ==
    IF t[i][1] \notin Whitespace THEN <<t[i]>>
    ELSE LET s == StretchStart(t, i, Whitespace)
             j == StretchEnd(t, s, Whitespace)
             nl == {m \in s..j : t[m][1] = "\n"}
         IN  IF nl # {} /\ (Max(nl) > s \/ t[s][2] >= 2)
             THEN IF i = s THEN << <<"\n", 1>> >>
                  ELSE IF i <= Max(nl) THEN <<>>
                  ELSE <<t[i]>>
             ELSE <<t[i]>>

SubTrailingSpace(t) ==
    Flatten([i \in 1..Len(t) |-> TrailingSpacePiece(t, i)], 1, Len(t))

\* re.sub(r"[ \t]{2,}", " ", text); what run i of t leaves in the result:
BlankRunsPiece(t, i) ==
    IF t[i][1] \notin Blank THEN <<t[i]>>
    ELSE LET s == StretchStart(t, i, Blank)
             j == StretchEnd(t, s, Blank)
         IN  IF TLen(SubSeq(t, s, j)) >= 2
             THEN IF i = s THEN << <<" ", 1>> >> ELSE <<>>
             ELSE <<t[i]>>

SubBlankRuns(t) ==
    Flatten([i \in 1..Len(t) |-> BlankRunsPiece(t, i)], 1, Len(t))

\* the two whitespace clean-up substitutions of shrink_context
CleanWhitespace(t) == SubBlankRuns(SubTrailingSpace(t))

(***************************************************************************)
(* Tokenizer.  tiktoken is an external library; it is modelled by the      *)
(* finest deterministic tokenizer, one token per character.                *)
(***************************************************************************)
_count_tokens(t) == TLen(t)

(***************************************************************************)
(* budget_guard.shrink_context                                             *)
(***************************************************************************)

\* "\n\n[...contexto reduzido...]\n\n"
ShrinkMarker == FromString("\n\n[...contexto reduzido...]\n\n")

\* the targets up to 1000 at which the double product n * 0.7 falls just
\* below the integer 7n/10, so that int() yields one less
FloatShort70 == {90, 170, 180, 330, 340, 350, 360, 650, 660, 670, 680, 690,
                 700, 710, 720, 730}

\* int(keep_tokens * 0.7)
HeadTokens(n) == IF n \in FloatShort70 THEN (7 * n) \div 10 - 1
                 ELSE (7 * n) \div 10

\* the tokenizer argument is always the client's _count_tokens
shrink_context(text, max_tokens) ==
    LET cleaned == CleanWhitespace(text)
        current_tokens == _count_tokens(cleaned)
        head_tokens == HeadTokens(max_tokens)
        tail_tokens == max_tokens - head_tokens
        \* int(head_tokens * (len(cleaned) / current_tokens))
        head_chars == (head_tokens * TLen(cleaned)) \div current_tokens
        tail_chars == (tail_tokens * TLen(cleaned)) \div current_tokens
    IN  IF current_tokens <= max_tokens THEN cleaned
        ELSE Cat(Cat(Take(cleaned, head_chars), ShrinkMarker),
                 LastChars(cleaned, tail_chars))

(***************************************************************************)
(* Harness for shrink_context: the input text and the target are drawn     *)
(* from bounded sets, the call computes the result and the result of       *)
(* shrinking that result again.                                            *)
(***************************************************************************)
ShrMaxRuns == 3
ShrMaxCount == 3
ShrMaxTarget == 6
ShrAlphabet == {"a", " ", "\n"}

\* the run-length encoded texts of at most ShrMaxRuns runs
ShrTexts ==
    {t \in UNION {[1..n -> ShrAlphabet \X (1..ShrMaxCount)] : n \in 0..ShrMaxRuns} :
        \A i \in 1..(Len(t) - 1) : t[i][1] # t[i + 1][1]}

ShrIdle == [pc |-> "idle", text |-> <<>>, target |-> 0, out |-> <<>>, again |-> <<>>]

InitShrinkInput ==
    shr \in {[pc |-> "call", text |-> t, target |-> n, out |-> <<>>, again |-> <<>>] :
                t \in ShrTexts, n \in 0..ShrMaxTarget}

ShrinkCall ==
    /\ shr.pc = "call"
    /\ LET out == shrink_context(shr.text, shr.target)
       IN  shr' = [shr EXCEPT !.pc = "done", !.out = out,
                       !.again = shrink_context(out, shr.target)]

(***************************************************************************)
(* Strings of the managed client: names, canonical prompt, cache key.      *)
(***************************************************************************)

\* str(n) for n >= 0
RECURSIVE Dec(_)
Dec(n) ==
    IF n < 10 THEN SubSeq("0123456789", n + 1, n + 1)
    ELSE Dec(n \div 10) \o SubSeq("0123456789", (n % 10) + 1, (n % 10) + 1)

\* "\n".join(f"{m['role']}: {m['content']}" for m in messages)
RECURSIVE _messages_to_text(_)
_messages_to_text(msgs) ==
    IF msgs = <<>> THEN <<>>
    ELSE IF Len(msgs) = 1
    THEN Cat(FromString(msgs[1].role \o ": "), msgs[1].content)
    ELSE Cat(Cat(FromString(msgs[1].role \o ": "), msgs[1].content),
             Cat(FromString("\n"), _messages_to_text(Tail(msgs))))

\* json.dumps(params, sort_keys=True) for the params dict of chat_completion:
\* temperature (in tenths), max_tokens and response_format, plus the keyword
\* argument document_id when the caller passed one.  An optional value is a
\* set holding at most one element.
DumpsParams(params) ==
    "{"
    \o (IF params.document_id = {} THEN ""
        ELSE "\"document_id\": \""
             \o (CHOOSE d \in params.document_id : TRUE) \o "\", ")
    \o "\"max_tokens\": "
    \o (IF params.max_tokens = {} THEN "null"
        ELSE Dec(CHOOSE n \in params.max_tokens : TRUE))
    \o ", \"response_format\": "
    \o (IF params.response_format = None THEN "null"
        ELSE "{\"type\": \"json_object\"}")
    \o ", \"temperature\": "
    \o Dec(params.temperature \div 10) \o "." \o Dec(params.temperature % 10)
    \o "}"

\* OpenAICache._hash_prompt.  SHA-256 is taken to be collision-free: the
\* digest is identified with the string it is computed from.
_hash_prompt(prompt, model, params) ==
    Cat(Cat(FromString(model \o "::"), prompt),
        FromString("::" \o DumpsParams(params)))

\* OpenAICache._hash_text(f"{model}::{text}"), the embedding cache key
EmbeddingKey(text, model) == Cat(FromString(model \o "::"), text)

(***************************************************************************)
(* budget_guard: prices, planner, cost estimate.                           *)
(***************************************************************************)

\* EUR per million tokens, as the price oracle returns them
PriceIn == 1
PriceOut == 4
PriceEmbed == 1

get_gpt4o_mini_prices_cached ==
    [input_per_million |-> PriceIn, output_per_million |-> PriceOut]

get_embedding_prices_cached == [embedding_per_million |-> PriceEmbed]

\* a planner that leaves the cost of the input out of the account
plan_output_tokens_NoInput(tokens_in, price_in_per_million, price_out_per_million, budget_eur, hard_cap_out) ==
    <<Min({budget_eur \div price_out_per_million, hard_cap_out}), TRUE>>

\* plan_output_tokens: <<max output tokens, fits>>
plan_output_tokens(tokens_in, price_in_per_million, price_out_per_million, budget_eur, hard_cap_out) ==
    LET cost_in == tokens_in * price_in_per_million
        remain == budget_eur - cost_in
        tok_out_max == remain \div price_out_per_million
    IN  IF remain <= 0 THEN <<0, FALSE>>
        ELSE <<Min({tok_out_max, hard_cap_out}), TRUE>>

estimate_cost(tokens_in, tokens_out, model) ==
    IF In(Tup("embed"), lower(Tup(model)))
    THEN tokens_in * get_embedding_prices_cached.embedding_per_million
    ELSE tokens_in * get_gpt4o_mini_prices_cached.input_per_million
         + tokens_out * get_gpt4o_mini_prices_cached.output_per_million

(***************************************************************************)
(* The remote endpoints.  A request either raises or returns a response;   *)
(* which, and what text it carries, is the remote side's choice.           *)
(***************************************************************************)
Raises == "raises"

UpstreamTexts == {"four", "{\"ok\": 1}"}

\* completion tokens the remote side bills for a response text
ReplyTokens(text) == IF text = "four" THEN 1 ELSE 5

\* json.loads(text): the parsed value, named by its canonical text, or None
\* where the code catches JSONDecodeError
JsonLoads(text) == IF text = "four" THEN None ELSE text

\* the JSON values Python treats as false: save_llm_response stores no
\* response_json for them
JsonFalsy(j) == j \in {None, "{}", "[]", "0", "null", "false", "\"\""}

(***************************************************************************)
(* ManagedOpenAIClient.chat_completion                                     *)
(***************************************************************************)
ShrinkTarget == 1000
HardCapOut == 800

\* the for/else loop over the messages, last to first: each user message
\* met is shrunk in place and the plan recomputed; the loop breaks at the
\* first plan that fits and falls through to the else branch otherwise
RECURSIVE ShrinkLoop(_, _, _, _)
ShrinkLoop(msgs, i, budget_eur, cur) ==
    IF i < 1 THEN [cur EXCEPT !.messages = msgs, !.broke = FALSE]
    ELSE IF msgs[i].role # "user" THEN ShrinkLoop(msgs, i - 1, budget_eur, cur)
    ELSE Bind([msgs EXCEPT ![i].content =
                  shrink_context(@, ShrinkTarget)],
           LAMBDA shrunk :
         Bind(_messages_to_text(shrunk), LAMBDA prompt_text :
         Bind(_count_tokens(prompt_text), LAMBDA tokens_in :
         Bind(plan_output_tokens(
                  tokens_in,
                  get_gpt4o_mini_prices_cached.input_per_million,
                  get_gpt4o_mini_prices_cached.output_per_million,
                  budget_eur, HardCapOut), LAMBDA plan :
         Bind([broke |-> plan[2] /\ plan[1] > 0, messages |-> shrunk,
               prompt_text |-> prompt_text, tokens_in |-> tokens_in,
               max_tokens_budget |-> plan[1]], LAMBDA now :
           IF now.broke THEN now
           ELSE ShrinkLoop(shrunk, i - 1, budget_eur, now))))))

\* lines 168-229: the max_tokens to send, or BudgetExceededError
PlanRequest(req, prompt_text, budget_eur) ==
    Bind(_count_tokens(prompt_text), LAMBDA tokens_in :
    Bind(plan_output_tokens(
             tokens_in,
             get_gpt4o_mini_prices_cached.input_per_million,
             get_gpt4o_mini_prices_cached.output_per_million,
             budget_eur, HardCapOut), LAMBDA plan :
    Bind([broke |-> TRUE, messages |-> req.messages,
          prompt_text |-> prompt_text, tokens_in |-> tokens_in,
          max_tokens_budget |-> plan[1]], LAMBDA direct :
      IF req.max_tokens = {}
      THEN Bind(IF ~plan[2] \/ plan[1] = 0
                THEN ShrinkLoop(req.messages, Len(req.messages),
                                budget_eur, direct)
                ELSE direct, LAMBDA fin :
             [raised |-> ~fin.broke, messages |-> fin.messages,
              prompt_text |-> fin.prompt_text, tokens_in |-> fin.tokens_in,
              max_tokens |-> fin.max_tokens_budget])
      ELSE Bind(CHOOSE n \in req.max_tokens : TRUE, LAMBDA max_tokens :
             [raised |-> estimate_cost(tokens_in, max_tokens, req.model)
                            > budget_eur,
              messages |-> req.messages, prompt_text |-> prompt_text,
              tokens_in |-> tokens_in, max_tokens |-> max_tokens]))))

\* a cost_tracking row
LedgerRow(model, operation, input_tokens, output_tokens, cost_eur, from_cache) ==
    [model |-> model, operation |-> operation, input_tokens |-> input_tokens,
     output_tokens |-> output_tokens, cost_eur |-> cost_eur,
     from_cache |-> from_cache]

\* what a call leaves behind and returns; st holds the client's state
Outcome(st, msgs, result) ==
    [cache |-> st.cache, embCache |-> st.embCache, ledger |-> st.ledger,
     rtRecords |-> st.rtRecords, messages |-> msgs, result |-> result]

NoResult ==
    [op |-> "none", outcome |-> "none", response |-> None,
     response_json |-> None, from_cache |-> FALSE, cost_eur |-> 0,
     upstream |-> FALSE, tokens_in |-> 0, max_tokens |-> 0, key |-> <<>>]

\* a raise that first writes a paid row to the ledger
RaiseBudgetExceeded_Logged(st, msgs, result) ==
    Outcome([st EXCEPT !.ledger = Append(@, LedgerRow("gpt-4o-mini",
                 "chat_completion", result.tokens_in, 0, 0, FALSE))],
            msgs, [result EXCEPT !.outcome = "BudgetExceeded"])

\* raise BudgetExceededError: the exception leaves the client's tables as
\* they were; the caller's message list keeps what the loop did to it
RaiseBudgetExceeded(st, msgs, result) ==
    Outcome(st, msgs, [result EXCEPT !.outcome = "BudgetExceeded"])

\* a failed upstream call that still records the request in the real-time
\* tracker
RaiseUpstreamFailure_Tracked(st, msgs, result) ==
    Outcome([st EXCEPT !.rtRecords = Append(@,
                 [model |-> "gpt-4o-mini", input_tokens |-> result.tokens_in,
                  output_tokens |-> 0, cost_eur |-> 0, from_cache |-> FALSE])],
            msgs, [result EXCEPT !.outcome = "UpstreamFailure",
                                 !.upstream = TRUE])

\* client.chat.completions.create or client.embeddings.create raised: the
\* exception passes through the client, which has written nothing yet
RaiseUpstreamFailure(st, msgs, result) ==
    Outcome(st, msgs, [result EXCEPT !.outcome = "UpstreamFailure",
                                     !.upstream = TRUE])

chat_completion(st, req, reply) ==
    LET params == [temperature |-> req.temperature, max_tokens |-> req.max_tokens,
                   response_format |-> req.response_format,
                   document_id |-> req.document_id]
        prompt_text == _messages_to_text(req.messages)
        key == _hash_prompt(prompt_text, req.model, params)
        base == [NoResult EXCEPT !.op = "chat", !.key = key]
    IN  IF key \in DOMAIN st.cache
        THEN \* cache hit: bump the access count, track a zero-cost row
             LET row == st.cache[key]
             IN  Outcome(
                    [st EXCEPT !.cache[key].access_count = @ + 1,
                               !.ledger = Append(@, LedgerRow(req.model,
                                   "chat_completion", row.input_tokens,
                                   row.output_tokens, 0, TRUE))],
                    req.messages,
                    [base EXCEPT !.outcome = "ok", !.response = row.response_text,
                                 !.response_json = row.response_json,
                                 !.from_cache = TRUE, !.cost_eur = 0,
                                 !.tokens_in = row.input_tokens])
        ELSE LET plan == PlanRequest(req, prompt_text, st.budget)
                 sent == [base EXCEPT !.tokens_in = plan.tokens_in,
                                      !.max_tokens = plan.max_tokens]
             IN  IF plan.raised
                 THEN RaiseBudgetExceeded(st, plan.messages, sent)
                 ELSE IF reply = Raises
                 THEN RaiseUpstreamFailure(st, plan.messages, sent)
                 ELSE LET response_json ==
                              IF req.response_format = "json_object"
                              THEN JsonLoads(reply) ELSE None
                          prompt_tokens == plan.tokens_in
                          completion_tokens ==
                              Min({plan.max_tokens, ReplyTokens(reply)})
                          actual_cost == estimate_cost(prompt_tokens,
                                             completion_tokens, req.model)
                          newkey == _hash_prompt(plan.prompt_text, req.model, params)
                          row == [response_text |-> reply,
                                  response_json |-> IF JsonFalsy(response_json)
                                                    THEN None ELSE response_json,
                                  input_tokens |-> prompt_tokens,
                                  output_tokens |-> completion_tokens,
                                  cost_eur |-> actual_cost, access_count |-> 1]
                          paid == LedgerRow(req.model, "chat_completion",
                                      prompt_tokens, completion_tokens,
                                      actual_cost, FALSE)
                      IN  Outcome(
                             [st EXCEPT
                                !.cache = [k \in DOMAIN @ \cup {newkey} |->
                                             IF k = newkey THEN row ELSE @[k]],
                                !.ledger = Append(@, paid),
                                !.rtRecords = Append(@,
                                    [model |-> req.model,
                                     input_tokens |-> prompt_tokens,
                                     output_tokens |-> completion_tokens,
                                     cost_eur |-> actual_cost,
                                     from_cache |-> FALSE])],
                             plan.messages,
                             [sent EXCEPT !.outcome = "ok", !.response = reply,
                                          !.response_json = response_json,
                                          !.cost_eur = actual_cost,
                                          !.upstream = TRUE, !.key = newkey])

(***************************************************************************)
(* ManagedOpenAIClient.create_embedding                                    *)
(***************************************************************************)
UpstreamVector == "vector"

\* an estimate that prices every embedding at nothing
EmbeddingCost_Free(tokens) == 0

\* (tokens / 1_000_000) * prices.embedding_per_million, in micro-EUR
EmbeddingCost(tokens) ==
    tokens * get_embedding_prices_cached.embedding_per_million

create_embedding(st, req, reply) ==
    LET key == EmbeddingKey(req.text, req.model)
        base == [NoResult EXCEPT !.op = "embed", !.key = key]
    IN  IF req.document_id # {}
        THEN \* the signature takes text and model only
             Outcome(st, st.messages, [base EXCEPT !.outcome = "TypeError"])
        ELSE IF key \in DOMAIN st.embCache
        THEN LET row == st.embCache[key]
             IN  Outcome(
                    [st EXCEPT !.embCache[key].access_count = @ + 1,
                               !.ledger = Append(@, LedgerRow(req.model,
                                   "embedding", row.tokens, 0, 0, TRUE))],
                    st.messages,
                    [base EXCEPT !.outcome = "ok", !.response = row.embedding,
                                 !.from_cache = TRUE, !.tokens_in = row.tokens])
        ELSE LET tokens == _count_tokens(req.text)
                 estimated_cost == EmbeddingCost(tokens)
                 sent == [base EXCEPT !.tokens_in = tokens]
             IN  IF estimated_cost > st.budget
                 THEN RaiseBudgetExceeded(st, st.messages, sent)
                 ELSE IF reply = Raises
                 THEN RaiseUpstreamFailure(st, st.messages, sent)
                 ELSE LET actual_tokens == tokens
                          actual_cost == EmbeddingCost(actual_tokens)
                          row == [embedding |-> UpstreamVector,
                                  tokens |-> actual_tokens,
                                  cost_eur |-> actual_cost, access_count |-> 1]
                      IN  Outcome(
                             [st EXCEPT
                                !.embCache = [k \in DOMAIN @ \cup {key} |->
                                                IF k = key THEN row ELSE @[k]],
                                !.ledger = Append(@, LedgerRow(req.model,
                                    "embedding", actual_tokens, 0,
                                    actual_cost, FALSE)),
                                !.rtRecords = Append(@,
                                    [model |-> req.model,
                                     input_tokens |-> actual_tokens,
                                     output_tokens |-> 0,
                                     cost_eur |-> actual_cost,
                                     from_cache |-> FALSE])],
                             st.messages,
                             [sent EXCEPT !.outcome = "ok",
                                          !.response = UpstreamVector,
                                          !.cost_eur = actual_cost,
                                          !.upstream = TRUE])

(***************************************************************************)
(* DocumentCostTracker                                                     *)
(***************************************************************************)
max_cost_per_document == 300000

\* self.document_costs.get(document_id, 0.0)
get_document_cost(costs, document_id) ==
    IF document_id \in DOMAIN costs THEN costs[document_id] ELSE 0

can_spend(costs, document_id, estimated_cost) ==
    ~(get_document_cost(costs, document_id) + estimated_cost
        > max_cost_per_document)

(***************************************************************************)
(* The client's callers.                                                   *)
(***************************************************************************)
MaxCalls == 2
BigLen == 300000
MidLen == 200000
OverMaxTokens == 2000000
DefaultBudget == 300000
\* a budget below the input cost of any re-rank prompt
TinyBudget == 10
TestBudget == 1000

Tags == {"rerank_1", "rerank_2", "rag_answer_2"}

Msg(role, content) == [role |-> role, content |-> content]

TxtHi == FromString("hi")
TxtBig == << <<"a", BigLen>> >>
TxtMid == << <<"b", MidLen>> >>

ChatReq(msgs, temperature, max_tokens, response_format, document_id) ==
    [op |-> "chat", messages |-> msgs, model |-> "gpt-4o-mini",
     temperature |-> temperature, max_tokens |-> max_tokens,
     response_format |-> response_format, document_id |-> document_id]

ChatRequests ==
    { ChatReq(<<Msg("system", TxtHi), Msg("user", TxtHi)>>, 0, {}, None, {}),
      ChatReq(<<Msg("system", TxtHi), Msg("user", TxtBig)>>, 0, {}, None, {}),
      ChatReq(<<Msg("user", TxtBig), Msg("user", TxtHi)>>, 0, {}, None, {}),
      ChatReq(<<Msg("system", TxtBig)>>, 0, {}, None, {}),
      ChatReq(<<Msg("user", TxtHi)>>, 0, {OverMaxTokens}, None, {}),
      ChatReq(<<Msg("user", TxtMid)>>, 0, {HardCapOut}, "json_object",
              {"rerank_1"}),
      ChatReq(<<Msg("user", TxtMid)>>, 7, {HardCapOut}, None, {"rerank_1"}) }

EmbedRequests ==
    { [op |-> "embed", text |-> t, model |-> "text-embedding-3-small",
       document_id |-> d] :
        t \in {TxtHi, Cat(TxtBig, TxtHi)}, d \in {{}, {"rag_answer_2"}} }

NoCall == [args |-> [op |-> "none"], res |-> NoResult]

ClientState ==
    [budget |-> budget, cache |-> cache, embCache |-> embCache,
     ledger |-> ledger, rtRecords |-> rtRecords, messages |-> messages]

InitClient ==
    /\ cache = <<>>
    /\ embCache = <<>>
    /\ ledger = <<>>
    /\ rtRecords = <<>>
    /\ document_costs = <<>>
    /\ messages = <<>>
    /\ upstream = 0
    /\ calls = 0
    /\ tagCharged = [t \in Tags |-> 0]
    /\ last = NoCall
    /\ prev = NoCall

\* the state after a call that left o behind
Finish(req, o) ==
    /\ cache' = o.cache
    /\ embCache' = o.embCache
    /\ ledger' = o.ledger
    /\ rtRecords' = o.rtRecords
    /\ messages' = o.messages
    /\ upstream' = upstream + (IF o.result.upstream THEN 1 ELSE 0)
    /\ calls' = calls + 1
    /\ tagCharged' =
          [t \in Tags |->
             tagCharged[t] + (IF t \in req.document_id THEN o.result.cost_eur ELSE 0)]
    /\ prev' = last
    /\ last' = [args |-> req, res |-> o.result]
    /\ UNCHANGED <<budget, document_costs, shr, flt, bm, mt, rag, oracle,
                   trk, pl, hk>>

\* a caller builds a message list and calls chat_completion
Chat ==
    /\ calls < MaxCalls
    /\ \E req \in ChatRequests, reply \in UpstreamTexts \cup {Raises} :
          Finish(req, chat_completion(ClientState, req, reply))

\* a caller passes the list object of its last call again, as that call
\* left it, with the same other arguments
ChatSameList ==
    /\ calls < MaxCalls
    /\ last.args.op = "chat"
    /\ \E reply \in UpstreamTexts \cup {Raises} :
          LET req == [last.args EXCEPT !.messages = messages]
          IN  Finish(req, chat_completion(ClientState, req, reply))

Embed ==
    /\ calls < MaxCalls
    /\ \E req \in EmbedRequests, reply \in {UpstreamVector, Raises} :
          Finish(req, create_embedding(ClientState, req, reply))

Idle == [pc |-> "idle"]

\* the harnesses of the later sections, at rest
InitRest == trk = Idle /\ pl = Idle /\ hk = Idle

Init ==
    /\ budget \in {DefaultBudget, TestBudget}
    /\ InitClient
    /\ shr = ShrIdle
    /\ flt = Idle
    /\ bm = Idle
    /\ mt = Idle
    /\ rag = Idle
    /\ oracle = Idle
    /\ InitRest

Next == Chat \/ ChatSameList \/ Embed

Spec == Init /\ [][Next]_vars

\* input tokens at the input price plus the max_tokens sent at the output
\* price
ProjectedCost(res) ==
    res.tokens_in * get_gpt4o_mini_prices_cached.input_per_million
    + res.max_tokens * get_gpt4o_mini_prices_cached.output_per_million

\* C1, as stated: a chat call repeated with the same caller-supplied
\* arguments, after a first call that succeeded upstream, returns the same
\* response text from the cache at cost 0 and makes no upstream request
C1_CacheIdempotence ==
    ( /\ last.args.op = "chat"
      /\ prev.args = last.args
      /\ prev.res.outcome = "ok"
      /\ ~prev.res.from_cache )
    => /\ last.res.outcome = "ok"
       /\ last.res.from_cache
       /\ last.res.cost_eur = 0
       /\ ~last.res.upstream
       /\ last.res.response = prev.res.response

\* C2: a chat call that is not a cache hit reaches the upstream endpoint
\* only if its projected cost is at most the per-request cap, and a call
\* whose projected cost exceeds the cap ends with BudgetExceeded without
\* reaching the upstream endpoint
C2_BudgetSafety ==
    (last.res.op = "chat" /\ ~last.res.from_cache)
    => /\ last.res.upstream => ProjectedCost(last.res) <= budget
       /\ ProjectedCost(last.res) > budget
            => last.res.outcome = "BudgetExceeded" /\ ~last.res.upstream

\* a call with max_tokens supplied whose projected cost exceeds the cap
C2_Witness ==
    /\ last.res.op = "chat"
    /\ last.args.max_tokens # {}
    /\ ProjectedCost(last.res) > budget
    /\ last.res.outcome = "BudgetExceeded"
    /\ ~last.res.upstream

\* C3: a chat call that fails with BudgetExceeded leaves the completion
\* cache and the ledger holding exactly the rows they held before the call
C3_StateUnchangedOnBudgetExceeded ==
    [][ ( /\ calls' = calls + 1
          /\ last'.res.op = "chat"
          /\ last'.res.outcome = "BudgetExceeded" )
        => cache' = cache /\ ledger' = ledger ]_vars

\* a BudgetExceeded after an earlier call filled the cache and the ledger
C3_Witness ==
    /\ last.res.op = "chat"
    /\ last.res.outcome = "BudgetExceeded"
    /\ DOMAIN cache # {}
    /\ Len(ledger) > 0

C22_MalformedJsonNotCached ==
    [][ ( /\ calls' = calls + 1
          /\ last'.args.op = "chat"
          /\ last'.args.response_format = "json_object"
          /\ last'.res.upstream
          /\ last'.res.outcome = "ok"
          /\ JsonLoads(last'.res.response) = None )
        => cache' = cache /\ ledger' = ledger ]_vars

\* the planner's verdict on a message list: no fit
NoFit(msgs) ==
    LET plan == plan_output_tokens(
                    _count_tokens(_messages_to_text(msgs)),
                    get_gpt4o_mini_prices_cached.input_per_million,
                    get_gpt4o_mini_prices_cached.output_per_million,
                    budget, HardCapOut)
    IN  ~plan[2] \/ plan[1] = 0

\* the index of the last user message, 0 when there is none
LastUser(msgs) ==
    Max({0} \cup {i \in 1..Len(msgs) : msgs[i].role = "user"})

\* C25, as stated: when max_tokens is not supplied and the planner reports
\* no fit, the call shrinks the last user message only, plans once more,
\* and ends with BudgetExceeded if that plan does not fit either; no other
\* message is altered, and a list without a user message fails with
\* BudgetExceeded with no message altered
C25_ShrinkAndRetryOnce ==
    [][ ( /\ calls' = calls + 1
          /\ last'.args.op = "chat"
          /\ last'.args.max_tokens = {}
          /\ ~last'.res.from_cache
          /\ NoFit(last'.args.messages) )
        => LET msgs == last'.args.messages
               u == LastUser(msgs)
               shrunk == [msgs EXCEPT ![u].content =
                             shrink_context(@, ShrinkTarget)]
           IN  IF u = 0
               THEN /\ last'.res.outcome = "BudgetExceeded"
                    /\ messages' = msgs
               ELSE /\ messages' = shrunk
                    /\ NoFit(shrunk) => last'.res.outcome = "BudgetExceeded"
      ]_vars

\* C14: when the remote chat or embedding call raises, the client has made
\* exactly one upstream attempt, the failure reaches the caller, and the
\* call writes no cache entry, no ledger row and no real-time cost-tracker
\* record
C14_UpstreamFailureNoTrace ==
    [][ (calls' = calls + 1 /\ last'.res.outcome = "UpstreamFailure")
        => /\ upstream' = upstream + 1
           /\ cache' = cache
           /\ embCache' = embCache
           /\ ledger' = ledger
           /\ rtRecords' = rtRecords ]_vars

\* an upstream failure of a chat call after an earlier call filled the
\* cache, the ledger and the real-time tracker
C14_Witness ==
    /\ last.res.op = "chat"
    /\ last.res.outcome = "UpstreamFailure"
    /\ last.res.upstream
    /\ upstream = 2
    /\ DOMAIN cache # {}
    /\ Len(ledger) = 1
    /\ Len(rtRecords) = 1

\* C4, as stated: once every request has completed, the cumulative EUR
\* recorded for calls carrying a document tag never exceeds the
\* per-document cap
C4_DocumentCap ==
    \A t \in Tags : tagCharged[t] <= max_cost_per_document

\* C5, as stated: a chat call with a document tag fails with
\* DocumentBudgetExceeded before any upstream request when current[tag]
\* plus the projected cost would exceed the tag's cap, and a call that
\* succeeds adds its actual cost to current[tag]
C5_DocumentTagGate ==
    [][ ( /\ calls' = calls + 1
          /\ last'.args.op = "chat"
          /\ last'.args.document_id # {} )
        => \A t \in last'.args.document_id :
              IF ~can_spend(document_costs, t, ProjectedCost(last'.res))
              THEN /\ last'.res.outcome = "DocumentBudgetExceeded"
                   /\ ~last'.res.upstream
              ELSE last'.res.outcome = "ok"
                   => get_document_cost(document_costs', t)
                        = get_document_cost(document_costs, t)
                          + last'.res.cost_eur ]_vars

InitShrink ==
    /\ budget = DefaultBudget
    /\ InitClient
    /\ InitShrinkInput
    /\ flt = Idle
    /\ bm = Idle
    /\ mt = Idle
    /\ rag = Idle
    /\ oracle = Idle
    /\ InitRest

NextShrink == ShrinkCall /\ UNCHANGED <<clientVars, flt, bm, mt, rag, oracle,
                   trk, pl, hk>>

SpecShrink == InitShrink /\ [][NextShrink]_vars

(***************************************************************************)
(* Python strings of the matching service, as TLC strings.                 *)
(***************************************************************************)
\* bool(s) of an optional string
Truthy(s) == s # None /\ s # ""

\* the elements of a list
Elems(list) == {list[i] : i \in 1..Len(list)}

(***************************************************************************)
(* MatchingService._apply_deterministic_filters.  Factors and penalties    *)
(* are in thousandths.                                                     *)
(***************************************************************************)
\* a size factor that does not reduce the penalty
penalties_Neutral ==
    [size_mismatch |-> 1000, cae_mismatch |-> 700, geo_mismatch |-> 900]

penalties == [size_mismatch |-> 800, cae_mismatch |-> 700, geo_mismatch |-> 900]

\* incentive.ai_description or {} read through .get with its defaults
AiDesc(incentive) ==
    IF incentive.ai_description = {}
    THEN [company_size |-> <<>>, caes |-> <<>>, geographic_location |-> "",
          investment_objectives |-> <<>>, specific_purposes |-> <<>>,
          eligibility_criteria |-> <<>>]
    ELSE CHOOSE d \in incentive.ai_description : TRUE

\* line 99
SizeRuleFires(ai_desc, company) ==
    /\ ai_desc.company_size # <<>>
    /\ Tup("não aplicável")
          \notin {lower(Tup(x)) : x \in Elems(ai_desc.company_size)}
    /\ Truthy(company.size)
    /\ company.size \notin Elems(ai_desc.company_size)

\* lines 108-113
CaeRuleFires(ai_desc, company) ==
    /\ Elems(ai_desc.caes) # {}
    /\ Elems(company.cae_codes) # {}
    /\ Elems(ai_desc.caes) \cap Elems(company.cae_codes) = {}

\* a region rule that knows no regional aliases
GeoRuleFires_NoTable(ai_desc, company) ==
    Bind(lower(Tup(ai_desc.geographic_location)), LAMBDA geo_location :
    Bind(lower(Tup(company.district)), LAMBDA company_district :
      /\ geo_location # <<>>
      /\ Truthy(company.district)
      /\ ~ \/ In(company_district, geo_location)
           \/ \E term \in {"portugal", "nacional", "todo o país",
                           "todas as regiões"} : In(Tup(term), geo_location)))

\* lines 122-148
GeoRuleFires(ai_desc, company) ==
    Bind(lower(Tup(ai_desc.geographic_location)), LAMBDA geo_location :
    Bind(lower(Tup(company.district)), LAMBDA company_district :
      /\ geo_location # <<>>
      /\ Truthy(company.district)
      /\ ~ \/ In(company_district, geo_location)
           \/ \E term \in {"portugal", "nacional", "todo o país",
                           "todas as regiões"} : In(Tup(term), geo_location)
           \/ In(Tup("algarve"), geo_location)
                /\ company_district = Tup("faro")
           \/ In(Tup("centro"), geo_location)
                /\ company_district
                     \in {Tup("coimbra"), Tup("leiria"), Tup("aveiro")}
           \/ In(Tup("norte"), geo_location)
                /\ company_district
                     \in {Tup("porto"), Tup("braga"), Tup("vila real")}
           \/ In(Tup("lisboa"), geo_location)
                /\ company_district \in {Tup("lisboa"), Tup("setúbal")}))

\* a penalty that keeps the smaller factor instead of multiplying
Times_Smallest(penalty, factor) == Min({penalty, factor})

\* penalty *= factor
Times(penalty, factor) == (penalty * factor) \div 1000

\* <<penalty, penalties_applied>>
_apply_deterministic_filters(incentive, company) ==
    LET ai_desc == AiDesc(incentive)
        size == SizeRuleFires(ai_desc, company)
        cae == CaeRuleFires(ai_desc, company)
        geo == GeoRuleFires(ai_desc, company)
        p1 == IF size THEN Times(1000, penalties.size_mismatch) ELSE 1000
        p2 == IF cae THEN Times(p1, penalties.cae_mismatch) ELSE p1
        p3 == IF geo THEN Times(p2, penalties.geo_mismatch) ELSE p2
        fired == (IF size THEN {"size"} ELSE {}) \cup
                 (IF cae THEN {"cae"} ELSE {}) \cup
                 (IF geo THEN {"geo"} ELSE {})
    IN  <<p3, [k \in fired |->
                 CASE k = "size" -> penalties.size_mismatch
                   [] k = "cae" -> penalties.cae_mismatch
                   [] k = "geo" -> penalties.geo_mismatch]>>

\* the incentives and companies the filter is called on
SizeLists == {<<>>, <<"micro", "pequena">>, <<"Não Aplicável">>,
              <<"micro", "não aplicável">>}
CaeLists == {<<>>, <<"62010">>, <<"01110", "62010">>, <<"47110">>}
GeoLocations == {"", "Portugal", "Algarve", "Região Norte", "Lisboa, Centro"}
Districts == {None, "Faro", "Porto", "Setúbal", "Beja"}
Sizes == {None, "micro", "grande"}

AiDescriptions ==
    {{}} \cup
    { {[company_size |-> cs, caes |-> ca, geographic_location |-> g,
        investment_objectives |-> <<>>, specific_purposes |-> <<>>,
        eligibility_criteria |-> <<>>]} :
        cs \in SizeLists, ca \in {<<>>, <<"62010">>}, g \in GeoLocations }

\* sizes {sme}, sectors {41, 42, 43}, scope "Lisboa, Porto"
ScopedIncentive ==
    [incentive_id |-> "1", title |-> "Apoio", description |-> None,
     ai_description |->
       {[company_size |-> <<"sme">>, caes |-> <<"41", "42", "43">>,
         geographic_location |-> "Lisboa, Porto",
         investment_objectives |-> <<>>, specific_purposes |-> <<>>,
         eligibility_criteria |-> <<>>]}]

\* a company of the given size, sector code and district
ScopedCompany(size, cae, district) ==
    [company_id |-> 1, name |-> "Empresa", size |-> size,
     cae_codes |-> <<cae>>, district |-> district, raw_description |-> None]

FilterIncentives ==
    { [incentive_id |-> "1", title |-> "Apoio", description |-> None,
       ai_description |-> d] : d \in AiDescriptions } \cup {ScopedIncentive}

FilterCompanies ==
    { [company_id |-> 1, name |-> "Empresa", size |-> sz, cae_codes |-> ca,
       district |-> di, raw_description |-> None] :
        sz \in Sizes, ca \in CaeLists \ {<<"01110", "62010">>}, di \in Districts }
    \cup {ScopedCompany("sme", "41", "Lisboa"),
          ScopedCompany("large", "41", "Lisboa"),
          ScopedCompany("sme", "55", "Faro")}

InitFilterInput ==
    flt \in { [pc |-> "ready", incentive |-> i, company |-> c] :
                i \in FilterIncentives, c \in FilterCompanies }

FilterCall ==
    /\ flt.pc = "ready"
    /\ LET r == _apply_deterministic_filters(flt.incentive, flt.company)
       IN  flt' = [pc |-> "done", incentive |-> flt.incentive,
                   company |-> flt.company, penalty |-> r[1],
                   penalties_applied |-> r[2]]

InitFilter ==
    /\ budget = DefaultBudget
    /\ InitClient
    /\ shr = ShrIdle
    /\ InitFilterInput
    /\ bm = Idle
    /\ mt = Idle
    /\ rag = Idle
    /\ oracle = Idle
    /\ InitRest

NextFilter == FilterCall /\ UNCHANGED <<clientVars, shr, bm, mt, rag, oracle,
                   trk, pl, hk>>

SpecFilter == InitFilter /\ [][NextFilter]_vars

\* C8: the deterministic filter returns a penalty p with 0 < p <= 1, and
\* p = 1 exactly when the map of fired rules is empty
C8_PenaltyBounds ==
    flt.pc = "done" =>
        /\ 0 < flt.penalty
        /\ flt.penalty <= 1000
        /\ (flt.penalty = 1000 <=> DOMAIN flt.penalties_applied = {})

\* all three rules fired on one pair
C8_Witness ==
    /\ flt.pc = "done"
    /\ DOMAIN flt.penalties_applied = {"size", "cae", "geo"}
    /\ flt.penalty = 504

\* C27, as stated: for a company that has a size, the size penalty fires
\* if and only if the declared sizes without the not-applicable value form
\* a non-empty set and the company's size is not in it
C27_SizeRule ==
    (flt.pc = "done" /\ Truthy(flt.company.size)) =>
        LET declared == {x \in Elems(AiDesc(flt.incentive).company_size) :
                           lower(Tup(x)) # Tup("não aplicável")}
        IN  "size" \in DOMAIN flt.penalties_applied
              <=> (declared # {} /\ flt.company.size \notin declared)

\* the country-wide tokens and the region-to-district table of the rule
CountryWide == {"portugal", "nacional", "todo o país", "todas as regiões"}
RegionTable ==
    [region \in {"algarve", "centro", "norte", "lisboa"} |->
       CASE region = "algarve" -> {"faro"}
         [] region = "centro" -> {"coimbra", "leiria", "aveiro"}
         [] region = "norte" -> {"porto", "braga", "vila real"}
         [] region = "lisboa" -> {"lisboa", "setúbal"}]

\* C28: the region penalty 0.9 fires if and only if the incentive declares
\* a scope, the company has a district, the district name does not occur
\* (case-insensitively) in the scope, the scope holds no country-wide token
\* and the region table does not link scope and district; scope "Algarve"
\* fires for the districts Porto and Lisboa and not for Faro
C28_RegionRule ==
    flt.pc = "done" =>
        LET scope == lower(Tup(AiDesc(flt.incentive).geographic_location))
            district == lower(Tup(flt.company.district))
            match ==
                \/ In(district, scope)
                \/ \E token \in CountryWide : In(Tup(token), scope)
                \/ \E region \in DOMAIN RegionTable :
                      /\ In(Tup(region), scope)
                      /\ \E d \in RegionTable[region] : district = Tup(d)
            fires == /\ scope # <<>>
                     /\ Truthy(flt.company.district)
                     /\ ~match
        IN  /\ "geo" \in DOMAIN flt.penalties_applied <=> fires
            /\ fires => flt.penalties_applied.geo = 900
            /\ AiDesc(flt.incentive).geographic_location = "Algarve"
                 => /\ flt.company.district = "Faro" => ~fires
                    /\ flt.company.district \in {"Porto", "Lisboa"} => fires

\* scope "Algarve" met a company of the district Porto
C28_Witness ==
    /\ flt.pc = "done"
    /\ AiDesc(flt.incentive).geographic_location = "Algarve"
    /\ flt.company.district = "Porto"
    /\ "geo" \in DOMAIN flt.penalties_applied

\* scope "Algarve" met a company of the district Faro
C28_WitnessAlias ==
    /\ flt.pc = "done"
    /\ AiDesc(flt.incentive).geographic_location = "Algarve"
    /\ flt.company.district = "Faro"
    /\ "geo" \notin DOMAIN flt.penalties_applied

\* the product of the factors recorded in a map of fired rules
RECURSIVE ProductOf(_, _)
ProductOf(applied, keys) ==
    IF keys = {} THEN 1000
    ELSE LET k == CHOOSE x \in keys : TRUE
         IN  (applied[k] * ProductOf(applied, keys \ {k})) \div 1000

\* C11: the penalty the deterministic filter returns is the product of the
\* factors of exactly the rules that fired (size 0.8, sector 0.7, region
\* 0.9), each at most once, and the fired-rule map lists exactly those
\* rules; for the incentive with sizes {sme}, sectors {41, 42, 43} and scope
\* "Lisboa, Porto", (sme, 41, Lisboa) gives 1.0, (large, 41, Lisboa) gives
\* 0.8 and (sme, 55, Faro) gives 0.63
C11_PenaltyProduct ==
    flt.pc = "done" =>
        LET ai_desc == AiDesc(flt.incentive)
            applied == flt.penalties_applied
        IN  /\ ("size" \in DOMAIN applied) = SizeRuleFires(ai_desc, flt.company)
            /\ ("cae" \in DOMAIN applied) = CaeRuleFires(ai_desc, flt.company)
            /\ ("geo" \in DOMAIN applied) = GeoRuleFires(ai_desc, flt.company)
            /\ DOMAIN applied \subseteq {"size", "cae", "geo"}
            /\ "size" \in DOMAIN applied => applied["size"] = 800
            /\ "cae" \in DOMAIN applied => applied["cae"] = 700
            /\ "geo" \in DOMAIN applied => applied["geo"] = 900
            /\ flt.penalty = ProductOf(applied, DOMAIN applied)
            /\ flt.incentive = ScopedIncentive =>
                 /\ flt.company = ScopedCompany("sme", "41", "Lisboa")
                      => flt.penalty = 1000
                 /\ flt.company = ScopedCompany("large", "41", "Lisboa")
                      => flt.penalty = 800
                 /\ flt.company = ScopedCompany("sme", "55", "Faro")
                      => flt.penalty = 630

\* the company (sme, 55, Faro) against the scoped incentive: sector and
\* region fire, size does not
C11_Witness ==
    /\ flt.pc = "done"
    /\ flt.incentive = ScopedIncentive
    /\ flt.company = ScopedCompany("sme", "55", "Faro")
    /\ DOMAIN flt.penalties_applied = {"cae", "geo"}
    /\ flt.penalty = 630

(***************************************************************************)
(* MatchingService._tokenize_text and _calculate_bm25_score.  Scores are   *)
(* in thousandths.                                                         *)
(***************************************************************************)
\* the characters of the model's texts outside \w and \s
Punctuation == {",", ".", "!", "-", "(", ")", ":"}

\* re.sub(r'[^\w\s]', ' ', text)
SubPunctuation(s) ==
    [i \in 1..Len(s) |-> IF s[i] \in Punctuation THEN " " ELSE s[i]]

\* str.split(): the maximal stretches free of whitespace, in order
Split(s) ==
    LET space == {" ", "\t", "\n"}
        starts == {i \in 1..Len(s) :
                     s[i] \notin space /\ (i = 1 \/ s[i - 1] \in space)}
        EndOf(i) == Min({j \in i..Len(s) : j = Len(s) \/ s[j + 1] \in space})
    IN  [k \in 1..Cardinality(starts) |->
           SubSeq(s, Nth(starts, k), EndOf(Nth(starts, k)))]

stop_words ==
    {Tup(w) : w \in {"de", "da", "do", "em", "para", "com", "por", "que", "e",
                     "a", "o", "as", "os", "um", "uma", "uns", "umas"}}

KeepToken(token) == Len(token) > 2 /\ token \notin stop_words

\* text is the tuple of characters of the string
_tokenize_text(text) == SelectSeq(Split(SubPunctuation(lower(text))), KeepToken)

\* ' '.join(parts)
RECURSIVE Join(_)
Join(parts) ==
    IF Len(parts) = 0 THEN ""
    ELSE IF Len(parts) = 1 THEN parts[1]
    ELSE parts[1] \o " " \o Join(Tail(parts))

\* list[:k]
Prefix(list, k) == SubSeq(list, 1, Min({k, Len(list)}))

\* lines 204-220
QueryText(incentive) ==
    LET ai_desc == AiDesc(incentive)
    IN  lower(Tup(Join(<<incentive.title>>
              \o (IF Truthy(incentive.description)
                  THEN <<incentive.description>> ELSE <<>>)
              \o ai_desc.investment_objectives
              \o ai_desc.specific_purposes
              \o ai_desc.caes
              \o Prefix(ai_desc.eligibility_criteria, 3))))

\* lines 224-235
DocText(company) ==
    lower(Tup(Join(<<company.name>>
          \o company.cae_codes
          \o (IF Truthy(company.raw_description)
              THEN <<company.raw_description>> ELSE <<>>)
          \o (IF Truthy(company.district) THEN <<company.district>> ELSE <<>>))))

\* e^(y/1000) in thousandths, by its series
RECURSIVE ExpSeries(_, _, _)
ExpSeries(y, k, term) ==
    IF term = 0 THEN 0
    ELSE term + ExpSeries(y, k + 1, (term * y) \div (k * 1000))

Exp(y) == ExpSeries(y, 1, 1000)

\* a linear map in place of the sigmoid
sigmoid_Linear(y) == y \div 5

\* 1 / (1 + math.exp(-y)), y and the result in thousandths
sigmoid(y) == (Exp(y) * 1000) \div (Exp(y) + 1000)

\* tf / (tf + k1 * (1 - b + b * (doc_len / avg_doc_len)))
bm25_term(tf, doc_len) == (tf * 1000000) \div (tf * 1000 + 300 + 18 * doc_len)

\* occurrences of token in tokens
Count(token, tokens) == Cardinality({i \in 1..Len(tokens) : tokens[i] = token})

RECURSIVE SumTerms(_, _)
SumTerms(tokens, doc_tokens) ==
    IF tokens = {} THEN 0
    ELSE LET token == CHOOSE t \in tokens : TRUE
         IN  bm25_term(Count(token, doc_tokens), Len(doc_tokens))
             + SumTerms(tokens \ {token}, doc_tokens)

_calculate_bm25_score(incentive, company) ==
    LET query_tokens == _tokenize_text(QueryText(incentive))
        doc_tokens == _tokenize_text(DocText(company))
        query_set == Elems(query_tokens)
        intersection == query_set \cap Elems(doc_tokens)
        score == SumTerms(intersection, doc_tokens)
        normalized_score == score \div Cardinality(query_set)
    IN  IF query_set = {} THEN 0 ELSE sigmoid(normalized_score * 5)

\* the incentives and companies the scorer is called on
Bm25Incentives ==
    { [incentive_id |-> "1", title |-> t, description |-> d,
       ai_description |-> a] :
        t \in {"Energia Solar", "PT 20", "Turismo, de Portugal"},
        d \in {None, "apoio para energia"},
        a \in {{}, {[company_size |-> <<>>, caes |-> <<"62010">>,
                     geographic_location |-> "",
                     investment_objectives |-> <<"Eficiência energética">>,
                     specific_purposes |-> <<>>,
                     eligibility_criteria |-> <<"PME", "sede em Faro",
                                                "sem dívidas", "outro">>]}} }

Bm25Companies ==
    { [company_id |-> 1, name |-> n, size |-> None, cae_codes |-> ca,
       district |-> di, raw_description |-> r] :
        n \in {"Solar Lda", "Energia Energia SA", "XY"},
        ca \in {<<>>, <<"62010">>}, r \in {None, "energia solar"},
        di \in {None, "Faro"} }

InitBm25Input ==
    bm \in { [pc |-> "ready", incentive |-> i, company |-> c] :
               i \in Bm25Incentives, c \in Bm25Companies }

Bm25Call ==
    /\ bm.pc = "ready"
    /\ bm' = [pc |-> "done", incentive |-> bm.incentive, company |-> bm.company,
              query_tokens |-> _tokenize_text(QueryText(bm.incentive)),
              doc_tokens |-> _tokenize_text(DocText(bm.company)),
              score |-> _calculate_bm25_score(bm.incentive, bm.company)]

InitBm25 ==
    /\ budget = DefaultBudget
    /\ InitClient
    /\ shr = ShrIdle
    /\ flt = Idle
    /\ InitBm25Input
    /\ mt = Idle
    /\ rag = Idle
    /\ oracle = Idle
    /\ InitRest

NextBm25 == Bm25Call /\ UNCHANGED <<clientVars, shr, flt, mt, rag, oracle,
                   trk, pl, hk>>

SpecBm25 == InitBm25 /\ [][NextBm25]_vars

\* C9, as stated: the lexical scorer returns a value strictly between 0 and
\* 1 for every pair, the pairs with an empty query bag included
C9_LexicalBounds ==
    bm.pc = "done" => 0 < bm.score /\ bm.score < 1000

\* C9, amended: the lexical scorer returns 0 when the query bag is empty,
\* and otherwise a value of at least 0.5 and strictly less than 1, which is
\* exactly 0.5 when query and document share no token
C9_LexicalBoundsAmended ==
    bm.pc = "done" =>
        IF bm.query_tokens = <<>> THEN bm.score = 0
        ELSE /\ 500 <= bm.score
             /\ bm.score < 1000
             /\ (Elems(bm.query_tokens) \cap Elems(bm.doc_tokens) = {}
                   => bm.score = 500)

\* a pair whose query bag is empty after tokenization
C9_Witness ==
    /\ bm.pc = "done"
    /\ bm.incentive.title = "PT 20"
    /\ bm.query_tokens = <<>>
    /\ bm.score = 0

(***************************************************************************)
(* MatchingService._llm_rerank and find_matches.  Weights, component       *)
(* scores and penalties are in thousandths; a preliminary or final score   *)
(* is the product of a weighted sum and a penalty, unscaled.               *)
(***************************************************************************)
weights == [vector |-> 500, bm25 |-> 200, llm |-> 300]

\* the texts the remote side may answer a re-rank request with
RerankTexts ==
    {"four", "{\"ok\": 1}",
     "{\"rankings\": [{\"company_index\": 1, \"score\": 8}, {\"company_index\": 2, \"score\": 8}, {\"company_index\": 3, \"score\": 2}]}",
     "{\"rankings\": [{\"company_index\": 2, \"score\": 10}, {\"company_index\": 7, \"score\": 1}]}",
     "{\"rankings\": [{\"company_index\": 1, \"score\": 15}, {\"company_index\": 2, \"score\": -3}]}",
     "{\"rankings\": [{\"company_index\": 1, \"score\": 1}, {\"company_index\": 3, \"score\": 10}]}",
     "{\"rankings\": {\"company_index\": 1, \"score\": 8}}",
     "{\"rankings\": [{\"company_index\": 1, \"score\": \"high\"}]}",
     "[1, 2]"}

\* the JSON texts on which lines 380-387 raise: a top-level list has no
\* .get, the keys of a rankings dict are str and have no .get, and a str
\* score cannot be divided by 10.0
MappingRaises(text) ==
    text \in {"{\"rankings\": {\"company_index\": 1, \"score\": 8}}",
              "{\"rankings\": [{\"company_index\": 1, \"score\": \"high\"}]}",
              "[1, 2]"}

\* json.loads(text).get("rankings", [])
JsonRankings(text) ==
    CASE text = "{\"rankings\": [{\"company_index\": 1, \"score\": 8}, {\"company_index\": 2, \"score\": 8}, {\"company_index\": 3, \"score\": 2}]}"
           -> <<[company_index |-> 1, score |-> 8],
                [company_index |-> 2, score |-> 8],
                [company_index |-> 3, score |-> 2]>>
      [] text = "{\"rankings\": [{\"company_index\": 2, \"score\": 10}, {\"company_index\": 7, \"score\": 1}]}"
           -> <<[company_index |-> 2, score |-> 10],
                [company_index |-> 7, score |-> 1]>>
      [] text = "{\"rankings\": [{\"company_index\": 1, \"score\": 15}, {\"company_index\": 2, \"score\": -3}]}"
           -> <<[company_index |-> 1, score |-> 15],
                [company_index |-> 2, score |-> -3]>>
      [] text = "{\"rankings\": [{\"company_index\": 1, \"score\": 1}, {\"company_index\": 3, \"score\": 10}]}"
           -> <<[company_index |-> 1, score |-> 1],
                [company_index |-> 3, score |-> 10]>>
      [] OTHER -> <<>>

\* lines 323-362: the prompt names the incentive and lists the companies
RECURSIVE CompaniesDesc(_, _)
CompaniesDesc(companies, i) ==
    IF i > Len(companies) THEN <<>>
    ELSE Cat(FromString(Dec(i) \o ". " \o companies[i].name \o "\n"),
             CompaniesDesc(companies, i + 1))

RerankPrompt(incentive, companies) ==
    Cat(FromString("Incentivo: " \o incentive.title \o "\nEmpresas:\n"),
        CompaniesDesc(Prefix(companies, 20), 1))

\* lines 380-387: the map from company id to score / 10, a later ranking
\* of a company overwriting an earlier one
MapRankings(rankings, companies) ==
    LET valid == {i \in 1..Len(rankings) :
                    /\ 0 <= rankings[i].company_index - 1
                    /\ rankings[i].company_index - 1 < Len(companies)}
        IdOf(i) == companies[rankings[i].company_index].company_id
    IN  [id \in {IdOf(i) : i \in valid} |->
           rankings[Max({i \in valid : IdOf(i) = id})].score * 100]

\* a re-rank step whose try block catches nothing
_llm_rerank_Propagates(st, incentive, companies, document_id, reply) ==
    Bind(ChatReq(<<Msg("system", FromString("especialista")),
                   Msg("user", RerankPrompt(incentive, companies))>>,
                 0, {}, "json_object", {document_id}), LAMBDA req :
    Bind(chat_completion(st, req, reply), LAMBDA o :
      [scores |-> <<>>,
       raised |-> \/ o.result.outcome # "ok"
                  \/ JsonLoads(o.result.response) = None
                  \/ MappingRaises(o.result.response),
       out |-> [o EXCEPT !.messages = st.messages]]))

\* [scores, raised, out]: the scores by company id, whether an exception
\* leaves the method, and what the chat call left.  Lines 364-401 run under
\* try / except Exception, which returns {}.
_llm_rerank(st, incentive, companies, document_id, reply) ==
    IF companies = <<>>
    THEN [scores |-> <<>>, raised |-> FALSE,
          out |-> Outcome(st, st.messages, NoResult)]
    ELSE Bind(ChatReq(<<Msg("system", FromString("especialista")),
                        Msg("user", RerankPrompt(incentive, companies))>>,
                      0, {}, "json_object", {document_id}), LAMBDA req :
         Bind(chat_completion(st, req, reply), LAMBDA o :
           [scores |-> IF o.result.outcome = "ok"
                          /\ JsonLoads(o.result.response) # None
                          /\ ~MappingRaises(o.result.response)
                       THEN MapRankings(JsonRankings(o.result.response),
                                        companies)
                       ELSE <<>>,
            raised |-> FALSE,
            out |-> [o EXCEPT !.messages = st.messages]]))

\* list.sort(key=score, reverse=True): stable, so equal scores keep the
\* order they had
RECURSIVE SortByScore(_)
SortByScore(list) ==
    IF list = <<>> THEN <<>>
    ELSE LET rest == SortByScore(Tail(list))
             x == Head(list)
             n == Cardinality({i \in 1..Len(rest) : rest[i].score > x.score})
         IN  SubSeq(rest, 1, n) \o <<x>> \o SubSeq(rest, n + 1, Len(rest))

\* lines 491-521
ScoreCandidate(incentive, row) ==
    Bind(_apply_deterministic_filters(incentive, row.company), LAMBDA f :
    Bind(_calculate_bm25_score(incentive, row.company), LAMBDA bm25_score :
      [company |-> row.company,
       score |-> (weights.vector * row.vector_similarity
                  + weights.bm25 * bm25_score) * f[1],
       component_scores |-> [vector |-> row.vector_similarity,
                             bm25 |-> bm25_score, penalty |-> f[1]],
       penalties_applied |-> f[2]]))

\* lines 536-572
FinalResult(candidate, llm_scores, use_llm) ==
    LET id == candidate.company.company_id
        llm_score == IF id \in DOMAIN llm_scores THEN llm_scores[id] ELSE 500
        cs == candidate.component_scores
    IN  [company_id |-> id,
         company_name |-> candidate.company.name,
         score |-> (weights.vector * cs.vector + weights.bm25 * cs.bm25
                    + (IF use_llm THEN weights.llm * llm_score ELSE 0))
                   * cs.penalty,
         penalties_applied |-> candidate.penalties_applied,
         component_scores |-> [vector |-> cs.vector, bm25 |-> cs.bm25,
                               penalty |-> cs.penalty, llm |-> llm_score]]

\* lines 524-582, from the candidates the store returned
RankCandidates(st, incentive, rows, top_k, use_llm, reply) ==
    Bind(SortByScore([i \in 1..Len(rows) |-> ScoreCandidate(incentive, rows[i])]),
         LAMBDA scored_candidates :
    Bind(IF use_llm /\ scored_candidates # <<>>
         THEN _llm_rerank(st, incentive,
                  [i \in 1..Min({20, Len(scored_candidates)}) |->
                      scored_candidates[i].company],
                  "rerank_" \o incentive.incentive_id, reply)
         ELSE [scores |-> <<>>, raised |-> FALSE,
               out |-> Outcome(st, st.messages, NoResult)],
         LAMBDA llm :
      [outcome |-> IF llm.raised THEN "raised" ELSE "ok",
       results |-> IF llm.raised THEN <<>>
                   ELSE SortByScore(
                     [i \in 1..Min({top_k, Len(scored_candidates)}) |->
                        FinalResult(scored_candidates[i], llm.scores, use_llm)]),
       llm_scores |-> llm.scores, candidates |-> scored_candidates,
       out |-> llm.out]))

\* [outcome, results, llm_scores, candidates, out]; store holds the incentives, embedded the ids that have
\* an embedding, rows what the similarity query returned
find_matches(st, store, embedded, incentive_id, rows, top_k, use_llm, reply) ==
    IF incentive_id \notin DOMAIN store \/ incentive_id \notin embedded
    THEN [outcome |-> "ok", results |-> <<>>, llm_scores |-> <<>>,
          candidates |-> <<>>,
          out |-> Outcome(st, st.messages, NoResult)]
    ELSE RankCandidates(st, store[incentive_id], rows, top_k, use_llm, reply)

\* the POST /matching handler of api/routes.py: HTTPException 404 for an
\* unknown incentive, 400 for one without embedding, 500 for an exception
\* of the service; the service is called with its default use_llm=True
routes_find_matches(st, store, embedded, incentive_id, rows, limit, reply) ==
    IF incentive_id \notin DOMAIN store
    THEN [outcome |-> "HTTP404", results |-> <<>>, llm_scores |-> <<>>,
          candidates |-> <<>>, out |-> Outcome(st, st.messages, NoResult)]
    ELSE IF incentive_id \notin embedded
    THEN [outcome |-> "HTTP400", results |-> <<>>, llm_scores |-> <<>>,
          candidates |-> <<>>, out |-> Outcome(st, st.messages, NoResult)]
    ELSE [find_matches(st, store, embedded, incentive_id, rows, limit,
                       TRUE, reply)
            EXCEPT !.outcome = IF @ = "raised" THEN "HTTP500" ELSE "ok"]

\* the incentives, their embeddings and the companies of the store
MatchIncentives ==
    [id \in {"1", "2", "3"} |->
       [incentive_id |-> id,
        title |-> IF id = "2" THEN "Energia Solar" ELSE "Turismo, de Portugal",
        description |-> None,
        ai_description |->
           IF id = "2"
           THEN {[company_size |-> <<"micro", "pequena">>,
                  caes |-> <<"62010">>, geographic_location |-> "Algarve",
                  investment_objectives |-> <<>>, specific_purposes |-> <<>>,
                  eligibility_criteria |-> <<>>]}
           ELSE {}]]

MatchEmbedded == {"1", "2"}

MatchCompanies ==
    [id \in 1..3 |->
       [company_id |-> id,
        name |-> CASE id = 1 -> "Solar Lda" [] id = 2 -> "Lunar Lda"
                   [] id = 3 -> "Energia Solar SA",
        size |-> IF id = 3 THEN "grande" ELSE "micro",
        cae_codes |-> IF id = 3 THEN <<"47110">> ELSE <<"62010">>,
        district |-> IF id = 3 THEN "Porto" ELSE "Faro",
        raw_description |-> None]]

Similarities == {800, 900}

\* what ORDER BY vector_similarity DESC LIMIT :limit may return: the rows
\* by descending similarity, rows of equal similarity in any order
StoreRows(limit) ==
    { Prefix([i \in 1..3 |-> [company |-> MatchCompanies[perm[i]],
                              vector_similarity |-> sim[perm[i]]]], limit) :
        <<perm, sim>> \in
          { ps \in [1..3 -> 1..3] \X [1..3 -> Similarities \cup {850}] :
              /\ \A i, j \in 1..3 : i # j => ps[1][i] # ps[1][j]
              /\ ps[2][3] = 850
              /\ ps[2][1] \in Similarities /\ ps[2][2] \in Similarities
              /\ \A i \in 1..2 : ps[2][ps[1][i]] >= ps[2][ps[1][i + 1]] } }

InitMatchInput ==
    mt \in { [pc |-> "ready", incentive_id |-> id, rows |-> rows,
              top_k |-> k, use_llm |-> u] :
               id \in {"1", "2", "3", "9"}, rows \in StoreRows(3),
               k \in {2, 3}, u \in BOOLEAN }

\* the state after a call, of the service or of the route, that returned r
Matched(via, r) ==
    /\ mt' = [mt EXCEPT !.pc = "done"]
               @@ [via |-> via, outcome |-> r.outcome, results |-> r.results,
                   llm_scores |-> r.llm_scores,
                   candidates |-> r.candidates, rerank |-> r.out.result]
    /\ cache' = r.out.cache
    /\ embCache' = r.out.embCache
    /\ ledger' = r.out.ledger
    /\ rtRecords' = r.out.rtRecords
    /\ upstream' = upstream + (IF r.out.result.upstream THEN 1 ELSE 0)
    /\ UNCHANGED <<budget, document_costs, messages, calls, tagCharged,
                   last, prev, shr, flt, bm, rag, oracle,
                   trk, pl, hk>>

\* one call of find_matches
Match ==
    /\ mt.pc = "ready"
    /\ \E reply \in RerankTexts \cup {Raises} :
          Matched("service",
                  find_matches(ClientState, MatchIncentives, MatchEmbedded,
                               mt.incentive_id, mt.rows, mt.top_k,
                               mt.use_llm, reply))

\* one POST /matching request
MatchRoute ==
    /\ mt.pc = "ready"
    /\ mt.use_llm
    /\ \E reply \in RerankTexts \cup {Raises} :
          Matched("route",
                  routes_find_matches(ClientState, MatchIncentives,
                                      MatchEmbedded, mt.incentive_id, mt.rows,
                                      mt.top_k, reply))

InitMatch ==
    /\ budget \in {DefaultBudget, TinyBudget}
    /\ InitClient
    /\ shr = ShrIdle
    /\ flt = Idle
    /\ bm = Idle
    /\ InitMatchInput
    /\ rag = Idle
    /\ oracle = Idle
    /\ InitRest

NextMatch == Match \/ MatchRoute

SpecMatch == InitMatch /\ [][NextMatch]_vars

\* C10, as stated: the returned list is ordered by final score descending,
\* and two results of equal final score appear in ascending entity-id order
C10_RankingTieBreak ==
    mt.pc = "done" =>
        \A i, j \in 1..Len(mt.results) :
            i < j =>
                \/ mt.results[i].score > mt.results[j].score
                \/ /\ mt.results[i].score = mt.results[j].score
                   /\ mt.results[i].company_id < mt.results[j].company_id

\* C13, as stated: when use_llm is true and the re-ranker returned the empty
\* mapping, every returned result's final score is computed without the LLM
\* component and with the remaining weights renormalized to sum to 1:
\* s = ((0.50/0.70)*v + (0.20/0.70)*b) * p
C13_WeightRenormalization ==
    (mt.pc = "done" /\ mt.use_llm /\ mt.llm_scores = <<>>) =>
        \A i \in 1..Len(mt.results) :
            LET cs == mt.results[i].component_scores
            IN  700 * (mt.results[i].score \div cs.penalty)
                  = 1000 * (weights.vector * cs.vector + weights.bm25 * cs.bm25)

\* C23, as stated for the re-rank step: when the structured response is
\* not valid JSON, exactly one further request is sent upstream
C23_SingleRepairAttempt ==
    ( /\ mt.pc = "done"
      /\ mt.rerank.op = "chat"
      /\ mt.rerank.upstream
      /\ mt.rerank.outcome = "ok"
      /\ JsonLoads(mt.rerank.response) = None )
    => upstream = 2

\* C26, as stated: with use_llm, no candidate that was sent to the re-rank
\* step and left out of the returned list has a strictly larger final
\* score than a returned one
C26_TopKByFinalScore ==
    ( /\ mt.pc = "done"
      /\ mt.use_llm
      /\ mt.rerank.op = "chat"
      /\ mt.rerank.outcome = "ok" )
    => \A i \in 1..Min({20, Len(mt.candidates)}) :
          (\A j \in 1..Len(mt.results) :
              mt.results[j].company_id # mt.candidates[i].company.company_id)
          => \A j \in 1..Len(mt.results) :
                FinalResult(mt.candidates[i], mt.llm_scores, TRUE).score
                  <= mt.results[j].score

\* the ways the re-rank step of the last match call failed
RerankFailed ==
    /\ mt.rerank.op = "chat"
    /\ \/ mt.rerank.outcome \in {"BudgetExceeded", "UpstreamFailure"}
       \/ /\ mt.rerank.outcome = "ok"
          /\ \/ JsonLoads(mt.rerank.response) = None
             \/ MappingRaises(mt.rerank.response)

C16_NotFound ==
    ( /\ mt.pc = "done"
      /\ \/ mt.incentive_id \notin DOMAIN MatchIncentives
         \/ mt.incentive_id \notin MatchEmbedded )
    => /\ mt.outcome = "HTTP404"
       /\ mt.candidates = <<>>
       /\ mt.rerank.op = "none"
       /\ upstream = 0

\* C6, as stated: the token count of shrink(t, n), measured with the same
\* tokenizer, is at most n
C6_ShrinkBound ==
    shr.pc = "done" => _count_tokens(shr.out) <= shr.target

\* C7, as stated: shrink(t, n) is no longer than the whitespace-normalized
\* t, and when t is within n tokens the result is the whitespace-normalized
\* t and shrinking it again changes nothing
C7_ShrinkNeverExpands ==
    shr.pc = "done"
    => /\ TLen(shr.out) <= TLen(CleanWhitespace(shr.text))
       /\ _count_tokens(shr.text) <= shr.target
            => /\ shr.out = CleanWhitespace(shr.text)
               /\ shr.again = shr.out


(***************************************************************************)
(* RAGService.  Similarities and confidences are in thousandths, the       *)
(* query's cost in micro-EUR.                                              *)
(***************************************************************************)
RefusalPhrase ==
    "Não tenho informação suficiente para responder a esta pergunta."

ErrorAnswer == "Erro ao gerar resposta."

\* hash(query) % 1000000, one value per question
QueryHash(question) == "2"

\* str(x) if x else None
StrOrNone(x) == IF Truthy(x) THEN x ELSE None

\* x or ''
OrEmpty(x) == IF Truthy(x) THEN x ELSE ""

\* lines 127-143
IncentiveDocument(row) ==
    [type |-> "incentive", id |-> row.incentive_id, title |-> row.title,
     content |-> row.title \o "\n" \o OrEmpty(row.description),
     metadata |-> << <<"publication_date", StrOrNone(row.publication_date)>>,
                     <<"start_date", StrOrNone(row.start_date)>>,
                     <<"end_date", StrOrNone(row.end_date)>>,
                     <<"total_budget", StrOrNone(row.total_budget)>>,
                     <<"source_link", row.source_link>>,
                     <<"ai_description", row.ai_description>> >>,
     similarity |-> row.similarity]

\* lines 145-159, for a company row whose raw column is NULL
CompanyDocument(row) ==
    [type |-> "company", id |-> row.company_id, title |-> row.name,
     content |-> row.name \o "\n",
     metadata |-> << <<"cae_codes", row.cae_codes>>, <<"size", row.size>>,
                     <<"district", row.district>>, <<"raw", None>> >>,
     similarity |-> row.similarity]

\* list.sort(key=similarity, reverse=True): stable
RECURSIVE SortBySimilarity(_)
SortBySimilarity(list) ==
    IF list = <<>> THEN <<>>
    ELSE LET rest == SortBySimilarity(Tail(list))
             x == Head(list)
             n == Cardinality({i \in 1..Len(rest) :
                                 rest[i].similarity > x.similarity})
         IN  SubSeq(rest, 1, n) \o <<x>> \o SubSeq(rest, n + 1, Len(rest))

\* [documents, out]: the documents retrieved and what the embedding call
\* left.  store is what the two SQL queries return, or that they raise.
_retrieve_relevant_documents(st, query, store, reply, max_docs) ==
    Bind([op |-> "embed", text |-> FromString(query),
          model |-> "text-embedding-3-small",
          document_id |-> {"rag_query_" \o QueryHash(query)}], LAMBDA req :
    Bind(create_embedding(st, req, reply), LAMBDA o :
      [documents |->
         IF o.result.outcome # "ok" THEN <<>>
         ELSE IF o.result.response = None THEN <<>>
         ELSE IF store.raises THEN <<>>
         ELSE Prefix(SortBySimilarity(
                 [i \in 1..Len(store.incentives) |->
                    IncentiveDocument(store.incentives[i])]
                 \o [i \in 1..Len(store.companies) |->
                       CompanyDocument(store.companies[i])]), max_docs),
       out |-> o]))

\* str.upper() of a document type
upper(s) == CASE s = "incentive" -> "INCENTIVE"
              [] s = "company" -> "COMPANY"
              [] OTHER -> s

\* json.dumps of None or of a str
JsonValue(v) == IF v = None THEN "null" ELSE "\"" \o v \o "\""

\* json.dumps(metadata, ensure_ascii=False, indent=2) of a flat dict, given
\* as its items in insertion order
RECURSIVE JsonItems(_)
JsonItems(items) ==
    IF items = <<>> THEN ""
    ELSE "  \"" \o items[1][1] \o "\": " \o JsonValue(items[1][2])
         \o (IF Len(items) = 1 THEN "" ELSE ",\n" \o JsonItems(Tail(items)))

JsonIndent2(items) ==
    IF items = <<>> THEN "{}" ELSE "{\n" \o JsonItems(items) \o "\n}"

\* lines 197-201
ContextPart(i, doc) ==
    "DOCUMENTO " \o Dec(i) \o " (" \o upper(doc.type) \o "):\n"
    \o "Título: " \o doc.title \o "\n"
    \o "Conteúdo: "
    \o SubSeq(doc.content, 1, Min({500, Len(doc.content)})) \o "...\n"
    \o (IF doc.metadata # <<>>
        THEN "Metadados: " \o JsonIndent2(doc.metadata) \o "\n" ELSE "")

\* "\n\n".join(context_parts), the parts numbered from i
RECURSIVE Context(_, _)
Context(documents, i) ==
    IF i > Len(documents) THEN ""
    ELSE ContextPart(i, documents[i])
         \o (IF i = Len(documents) THEN ""
             ELSE "\n\n" \o Context(documents, i + 1))

\* self.rag_prompt.format(context=context, question=question)
rag_prompt(context, question) ==
    "Tu és um assistente especializado em incentivos públicos portugueses e empresas.\n\nCONTEXTO RETRIEVED:\n"
    \o context
    \o "\n\nPERGUNTA DO UTILIZADOR:\n"
    \o question
    \o "\n\nINSTRUÇÕES:\n1. Responde à pergunta baseando-te APENAS no contexto fornecido\n2. Se não tiveres informação suficiente, diz \"Não tenho informação suficiente para responder a esta pergunta\"\n3. Inclui citações específicas dos documentos quando relevante\n4. Seja preciso e útil\n5. Responde em português\n\nRESPOSTA:"

\* the keys of the dict chat_completion returns, from the upstream or from
\* the cache
ChatDict(result) ==
    [response |-> result.response, response_json |-> result.response_json,
     cost_eur |-> result.cost_eur, from_cache |-> result.from_cache]

\* dict.get(key)
Get(dict, key) == IF key \in DOMAIN dict THEN dict[key] ELSE None

\* str.strip()
strip(s) ==
    LET inked == {i \in 1..Len(s) : SubSeq(s, i, i) \notin Whitespace}
    IN  IF inked = {} THEN "" ELSE SubSeq(s, Min(inked), Max(inked))

\* sum(doc['similarity'] for doc in documents)
RECURSIVE SumSimilarity(_)
SumSimilarity(documents) ==
    IF documents = <<>> THEN 0
    ELSE Head(documents).similarity + SumSimilarity(Tail(documents))

\* min(avg_similarity * 1.2, 1.0)
Confidence(documents) ==
    Min({(SumSimilarity(documents) * 12) \div (10 * Len(documents)), 1000})

\* an answer step that sends the prompt whatever was retrieved
_generate_answer_NoCheck(st, query, documents, reply) ==
    [answer |-> ErrorAnswer, confidence |-> 0,
     out |-> chat_completion(st,
                ChatReq(<<Msg("user", FromString(rag_prompt("", query)))>>,
                        0, {800}, None, {"rag_answer_" \o QueryHash(query)}),
                reply)]

\* [answer, confidence, out]; out is what the completion call left, with
\* op "none" when no call was made
_generate_answer(st, query, documents, reply) ==
    IF documents = <<>>
    THEN [answer |-> RefusalPhrase, confidence |-> 0,
          out |-> Outcome(st, st.messages, NoResult)]
    ELSE Bind(rag_prompt(Context(documents, 1), query), LAMBDA prompt :
         Bind(ChatReq(<<Msg("user", FromString(prompt))>>,
                      0, {800}, None, {"rag_answer_" \o QueryHash(query)}),
              LAMBDA req :
         Bind(chat_completion(st, req, reply), LAMBDA o :
         Bind(IF o.result.outcome = "ok"
              THEN Get(ChatDict(o.result), "content") ELSE None,
              LAMBDA content :
           [answer |-> IF Truthy(content) THEN strip(content) ELSE ErrorAnswer,
            confidence |-> IF Truthy(content) THEN Confidence(documents)
                           ELSE 0,
            out |-> [o EXCEPT !.messages = st.messages]]))))

\* lines 262-270
Sources(documents) ==
    [i \in 1..Len(documents) |->
       [type |-> documents[i].type, id |-> documents[i].id,
        title |-> documents[i].title,
        similarity |-> documents[i].similarity,
        metadata |-> documents[i].metadata]]

\* RAGService.query: the RAGResult, the documents retrieved, and what the
\* embedding call and the completion call left
query(st, question, store, max_documents, embed_reply, chat_reply) ==
    Bind(_retrieve_relevant_documents(st, question, store, embed_reply,
                                      max_documents), LAMBDA r :
    Bind([st EXCEPT !.cache = r.out.cache, !.embCache = r.out.embCache,
                    !.ledger = r.out.ledger, !.rtRecords = r.out.rtRecords],
         LAMBDA after :
    Bind(r.documents, LAMBDA documents :
    Bind(_generate_answer(after, question, documents, chat_reply), LAMBDA g :
      [answer |-> g.answer, sources |-> Sources(r.documents),
       confidence |-> g.confidence,
       cost_eur |-> IF r.documents # <<>> THEN 1000 ELSE 0,
       documents |-> r.documents, embed |-> r.out, chat |-> g.out]))))

\* the questions, the answers of the store and the document lists the
\* service is called on
Questions == {"Que incentivos existem?", "hi"}

IncentiveRow(id, similarity) ==
    [incentive_id |-> id, title |-> "Apoio", description |-> None,
     publication_date |-> None, start_date |-> None, end_date |-> None,
     total_budget |-> None, source_link |-> None, ai_description |-> None,
     similarity |-> similarity]

CompanyRow(id, similarity) ==
    [company_id |-> id, name |-> "Empresa", cae_codes |-> None,
     size |-> "micro", district |-> "Faro", similarity |-> similarity]

RagStores ==
    { [raises |-> TRUE, incentives |-> <<>>, companies |-> <<>>],
      [raises |-> FALSE, incentives |-> <<>>, companies |-> <<>>],
      [raises |-> FALSE, incentives |-> <<IncentiveRow("1", 700)>>,
       companies |-> <<>>],
      [raises |-> FALSE, incentives |-> <<IncentiveRow("1", 700)>>,
       companies |-> <<CompanyRow(1, 900)>>] }

RagDocuments ==
    { <<>>,
      <<IncentiveDocument(IncentiveRow("1", 700))>>,
      <<CompanyDocument(CompanyRow(1, 900)),
        IncentiveDocument(IncentiveRow("1", 700))>>,
      <<[type |-> "incentive", id |-> "1", title |-> "Apoio",
         content |-> "Apoio\n", metadata |-> <<>>, similarity |-> 500]>> }

InitRagInput ==
    rag \in { [pc |-> "ready", question |-> q, store |-> s, given |-> d] :
                q \in Questions, s \in RagStores, d \in RagDocuments }

\* what a call left in the client's tables
Leave(o, n) ==
    /\ cache' = o.cache
    /\ embCache' = o.embCache
    /\ ledger' = o.ledger
    /\ rtRecords' = o.rtRecords
    /\ upstream' = upstream + n
    /\ UNCHANGED <<budget, document_costs, messages, calls, tagCharged,
                   last, prev, shr, flt, bm, mt, oracle,
                   trk, pl, hk>>

Sent(o) == IF o.result.upstream THEN 1 ELSE 0

\* the state after a call of query that returned r
Queried(r) ==
    /\ rag' = [pc |-> "done", op |-> "query", question |-> rag.question,
               store |-> rag.store, documents |-> r.documents,
               answer |-> r.answer, confidence |-> r.confidence,
               sources |-> r.sources, cost_eur |-> r.cost_eur,
               completions |-> IF r.chat.result.op = "chat" THEN 1 ELSE 0,
               outcome |-> r.chat.result.outcome,
               response |-> r.chat.result.response]
    /\ Leave(r.chat, Sent(r.embed) + Sent(r.chat))

\* one call of RAGService.query
RagQuery ==
    /\ rag.pc = "ready"
    /\ \E embed_reply \in {UpstreamVector, Raises},
          chat_reply \in UpstreamTexts \cup {Raises} :
          Queried(query(ClientState, rag.question, rag.store, 5,
                        embed_reply, chat_reply))

\* the state after a call of _generate_answer that returned g
Answered(g) ==
    /\ rag' = [pc |-> "done", op |-> "_generate_answer",
               question |-> rag.question, store |-> rag.store,
               documents |-> rag.given, answer |-> g.answer,
               confidence |-> g.confidence, sources |-> Sources(rag.given),
               cost_eur |-> 0,
               completions |-> IF g.out.result.op = "chat" THEN 1 ELSE 0,
               outcome |-> g.out.result.outcome,
               response |-> g.out.result.response]
    /\ Leave(g.out, Sent(g.out))

\* one call of RAGService._generate_answer on a list of documents
GenerateAnswer ==
    /\ rag.pc = "ready"
    /\ \E chat_reply \in UpstreamTexts \cup {Raises} :
          Answered(_generate_answer(ClientState, rag.question, rag.given,
                                    chat_reply))

InitRag ==
    /\ budget \in {DefaultBudget, TestBudget}
    /\ InitClient
    /\ shr = ShrIdle
    /\ flt = Idle
    /\ bm = Idle
    /\ mt = Idle
    /\ InitRagInput
    /\ oracle = Idle
    /\ InitRest

NextRag == RagQuery \/ GenerateAnswer

SpecRag == InitRag /\ [][NextRag]_vars

\* C12: whenever retrieval yields zero documents (empty store, failed
\* question embedding or failed store query), the answer is exactly the
\* refusal phrase, with confidence 0 and an empty sources list, and no
\* completion request is issued
C12_RagRefusal ==
    (rag.pc = "done" /\ rag.documents = <<>>) =>
        /\ rag.answer = RefusalPhrase
        /\ rag.confidence = 0
        /\ rag.sources = <<>>
        /\ rag.completions = 0
        /\ \A i \in 1..Len(ledger) : ledger[i].operation # "chat_completion"

\* a query against a store holding documents whose question embedding
\* failed
C12_Witness ==
    /\ rag.pc = "done"
    /\ rag.op = "query"
    /\ ~rag.store.raises
    /\ rag.store.incentives # <<>>
    /\ rag.documents = <<>>
    /\ rag.answer = RefusalPhrase

\* C29: when at least one document is retrieved and the completion call
\* succeeds, the answer is the completion's text (stripped of surrounding
\* whitespace), the confidence is min(1.0, 1.2 * mean similarity of the
\* returned sources), and every returned source is one of the documents
\* retrieved in that call
C29_AnswerOnSuccess ==
    ( /\ rag.pc = "done"
      /\ rag.documents # <<>>
      /\ rag.completions = 1
      /\ rag.outcome = "ok" ) =>
        /\ rag.answer = strip(rag.response)
        /\ LET total == SumSimilarity(rag.sources)
               n == Len(rag.sources)
           IN  /\ n > 0
               /\ rag.confidence = Min({1000, (12 * total) \div (10 * n)})
        /\ \A i \in 1..Len(rag.sources) :
              \E j \in 1..Len(rag.documents) :
                 /\ rag.sources[i].id = rag.documents[j].id
                 /\ rag.sources[i].type = rag.documents[j].type
                 /\ rag.sources[i].similarity = rag.documents[j].similarity

(***************************************************************************)
(* budget_guard: the price and exchange-rate caches.  The caches are files *)
(* of the cache directory, shared by every process that imports the        *)
(* module; a caller is one such process (or thread) inside                 *)
(* get_gpt4o_mini_prices_cached or get_embedding_prices_cached.  The clock *)
(* counts hours, money is in micro-units, the exchange rate in hundredths. *)
(* An Optional[float] is a set holding at most one element.                *)
(***************************************************************************)
PRICE_CACHE_HOURS == 24
EXCHANGE_RATE_CACHE_HOURS == 12
EUR_PER_USD_FALLBACK == 93

PriceModels == {"gpt-4o-mini", "text-embedding-3-small"}

FALLBACK_PRICES ==
    [m \in PriceModels |->
       IF m = "gpt-4o-mini"
       THEN [input_usd |-> 150000, output_usd |-> 600000]
       ELSE [embedding_usd |-> 20000]]

ModelPrices(input, output, embedding) ==
    [input_per_million |-> input, output_per_million |-> output,
     embedding_per_million |-> embedding]

\* the truth value of an Optional[float]
Positive(opt) == opt # {} /\ opt # {0}

\* "cached and cached.input_per_million and cached.output_per_million", and
\* "cached and cached.embedding_per_million"; cached is {} for None
Usable(model, cached) ==
    /\ cached # {}
    /\ \A p \in cached :
          IF model = "gpt-4o-mini"
          THEN Positive(p.input_per_million) /\ Positive(p.output_per_million)
          ELSE Positive(p.embedding_per_million)

\* a cache file: absent, unreadable, or a record with its timestamp
NoFile == [kind |-> "absent"]
CorruptFile == [kind |-> "corrupt"]

\* fetch_exchange_rate raises, for a failed request as for an answer
\* without a EUR rate ("if not eur_rate")
NoRate == 0

\* [rate, file, fetched]: the rate returned, the file left, and whether the
\* rate API was called; reply is the rate the API answers with, or NoRate
get_exchange_rate_cached(file, now, reply) ==
    IF file.kind = "record"
       /\ now - file.cached_at < EXCHANGE_RATE_CACHE_HOURS
    THEN [rate |-> file.eur_per_usd, file |-> file, fetched |-> FALSE]
    ELSE IF reply # NoRate
    THEN [rate |-> reply, fetched |-> TRUE,
          file |-> [kind |-> "record", cached_at |-> now,
                    eur_per_usd |-> reply]]
    ELSE IF file.kind = "record"
    THEN [rate |-> file.eur_per_usd, file |-> file, fetched |-> TRUE]
    ELSE [rate |-> EUR_PER_USD_FALLBACK, file |-> file, fetched |-> TRUE]

\* round(amount_usd * eur_per_usd, 6)
_usd_to_eur(amount_usd, eur_per_usd) == (amount_usd * eur_per_usd + 50) \div 100

_save_prices_cache(now, prices) ==
    [kind |-> "record", cached_at |-> now, prices |-> prices]

\* the cached prices, or {} for None
_load_prices_cache(file, now, max_age_hours) ==
    IF file.kind # "record" THEN {}
    ELSE IF now - file.cached_at < max_age_hours THEN {file.prices}
    ELSE {}

\* fetch_gpt4o_mini_prices and fetch_embedding_small_price once the page
\* has answered with the listed prices: each _usd_to_eur asks for the
\* exchange rate.  [prices, rate_file]
FetchedPrices(model, rate_file, now, r1, r2) ==
    IF model = "gpt-4o-mini"
    THEN Bind(get_exchange_rate_cached(rate_file, now, r1), LAMBDA x1 :
         Bind(get_exchange_rate_cached(x1.file, now, r2), LAMBDA x2 :
           [prices |-> ModelPrices(
                {_usd_to_eur(FALLBACK_PRICES[model].input_usd, x1.rate)},
                {_usd_to_eur(FALLBACK_PRICES[model].output_usd, x2.rate)}, {}),
            rate_file |-> x2.file]))
    ELSE Bind(get_exchange_rate_cached(rate_file, now, r1), LAMBDA x1 :
           [prices |-> ModelPrices({}, {},
                {_usd_to_eur(FALLBACK_PRICES[model].embedding_usd, x1.rate)}),
            rate_file |-> x1.file])

\* lines 351-364 and 402-415: the hard-coded prices at the current rate
HardCodedPrices(model, rate) ==
    IF model = "gpt-4o-mini"
    THEN ModelPrices({_usd_to_eur(FALLBACK_PRICES[model].input_usd, rate)},
                     {_usd_to_eur(FALLBACK_PRICES[model].output_usd, rate)}, {})
    ELSE ModelPrices({}, {},
                     {_usd_to_eur(FALLBACK_PRICES[model].embedding_usd, rate)})

\* lines 340-364 and 391-415 from the moment the page request ends: page is
\* "ok" or Raises, r1 and r2 what the rate API answers.
\* [refresh, prices_file, rate_file]
Refreshed(model, prices_file, rate_file, now, page, r1, r2) ==
    IF page # Raises
    THEN Bind(FetchedPrices(model, rate_file, now, r1, r2), LAMBDA f :
           [refresh |-> "ok",
            prices_file |-> _save_prices_cache(now, f.prices),
            rate_file |-> f.rate_file])
    ELSE IF Usable(model, _load_prices_cache(prices_file, now, 24 * 30))
    THEN [refresh |-> "stale", prices_file |-> prices_file,
          rate_file |-> rate_file]
    ELSE Bind(get_exchange_rate_cached(rate_file, now, r1), LAMBDA x :
           [refresh |-> "fallback",
            prices_file |-> _save_prices_cache(now,
                                HardCodedPrices(model, x.rate)),
            rate_file |-> x.file])

(***************************************************************************)
(* Harness for the price caches: two callers, a clock, the cache files as  *)
(* earlier runs may have left them.  A call is three steps: the cache      *)
(* check, the start of the page request, and the rest of the function      *)
(* once the request has ended.                                             *)
(***************************************************************************)
Callers == {1, 2}
OracleEpoch == 800
MaxAdvance == 24
RateReplies == {95, NoRate}

IdleCaller ==
    [pc |-> "idle", model |-> "gpt-4o-mini", refresh |-> "none", at |-> 0,
     after_failed |-> FALSE]

\* a call for the model ended within the price TTL with a failed refresh
FailedRecently(model) ==
    \E d \in Callers :
       /\ oracle.callers[d].pc = "done"
       /\ oracle.callers[d].model = model
       /\ oracle.callers[d].refresh \in {"stale", "fallback"}
       /\ oracle.now - oracle.callers[d].at < PRICE_CACHE_HOURS

OracleStep(next) ==
    /\ oracle' = next
    /\ UNCHANGED <<budget, cache, embCache, ledger, rtRecords, document_costs,
                   messages, upstream, calls, tagCharged, last, prev, shr,
                   flt, bm, mt, rag, trk, pl, hk>>

\* lines 331-337 and 382-388: the cache check of a new call
PricesCall(c, model) ==
    /\ oracle.callers[c].pc \in {"idle", "done"}
    /\ OracleStep(
         [oracle EXCEPT !.callers[c] =
            [pc |-> IF Usable(model, _load_prices_cache(
                          oracle.prices[model], oracle.now, PRICE_CACHE_HOURS))
                    THEN "done" ELSE "expired",
             model |-> model, refresh |-> "none", at |-> oracle.now,
             after_failed |-> FailedRecently(model)]])

\* requests.get of the fetch function is entered
BeginFetch(c) ==
    /\ oracle.callers[c].pc = "expired"
    /\ OracleStep([oracle EXCEPT !.callers[c].pc = "fetching"])

Fetched(c, r) ==
    OracleStep([oracle EXCEPT
                  !.callers[c].pc = "done",
                  !.callers[c].refresh = r.refresh,
                  !.callers[c].at = oracle.now,
                  !.prices[oracle.callers[c].model] = r.prices_file,
                  !.rate = r.rate_file])

\* the page request ends and the call runs to its return
EndFetch(c) ==
    /\ oracle.callers[c].pc = "fetching"
    /\ \E page \in {"ok", Raises}, r1 \in RateReplies, r2 \in RateReplies :
          Fetched(c, Refreshed(oracle.callers[c].model,
                               oracle.prices[oracle.callers[c].model],
                               oracle.rate, oracle.now, page, r1, r2))

Tick ==
    /\ oracle.now + EXCHANGE_RATE_CACHE_HOURS <= OracleEpoch + MaxAdvance
    /\ OracleStep([oracle EXCEPT !.now = @ + EXCHANGE_RATE_CACHE_HOURS])

\* the price files an earlier run may have left: none, an unreadable one,
\* a fresh one, one two days old, one older than a month
PriceFiles(model) ==
    {NoFile, CorruptFile}
      \cup {_save_prices_cache(t, HardCodedPrices(model, EUR_PER_USD_FALLBACK)) :
              t \in {OracleEpoch, OracleEpoch - 2 * PRICE_CACHE_HOURS, 0}}

InitOracle ==
    /\ budget = DefaultBudget
    /\ InitClient
    /\ shr = ShrIdle
    /\ flt = Idle
    /\ bm = Idle
    /\ mt = Idle
    /\ rag = Idle
    /\ InitRest
    /\ oracle \in
         { [pc |-> "run", now |-> OracleEpoch,
            prices |-> [m \in PriceModels |->
                          IF m = "gpt-4o-mini" THEN g ELSE e],
            rate |-> r,
            callers |-> [c \in Callers |-> IdleCaller]] :
             g \in PriceFiles("gpt-4o-mini"),
             e \in PriceFiles("text-embedding-3-small"),
             r \in {NoFile,
                    [kind |-> "record", cached_at |-> OracleEpoch,
                     eur_per_usd |-> 95]} }

NextOracle ==
    \/ \E c \in Callers, model \in PriceModels : PricesCall(c, model)
    \/ \E c \in Callers : BeginFetch(c)
    \/ \E c \in Callers : EndFetch(c)
    \/ Tick

SpecOracle == InitOracle /\ [][NextOracle]_vars

\* C19, as stated: after a call for a model whose refresh failed, whether
\* it returned a stale record or the hard-coded prices, a call for that
\* model made within the TTL performs no outbound fetch
C19_NoFetchAfterFailedRefresh ==
    oracle.pc = "run" =>
        \A c \in Callers :
           oracle.callers[c].after_failed
              => oracle.callers[c].pc \notin {"expired", "fetching"}

\* C20, as stated: at most one outbound price fetch per model is in flight
C20_OneFetchInFlight ==
    oracle.pc = "run" =>
        \A model \in PriceModels :
           Cardinality({c \in Callers :
                          /\ oracle.callers[c].pc = "fetching"
                          /\ oracle.callers[c].model = model}) <= 1

\* C18, as stated: with vector similarities in [0,1], every returned
\* result has its vector, lexical and llm component in [0,1] and a final
\* score in [0,1], whatever the re-rank model answered, and the list has at
\* most top_k entries.  Components are in thousandths, the final score is
\* the weighted sum (weights in thousandths) times the penalty.
C18_ScoreRange ==
    mt.pc = "done" =>
        /\ Len(mt.results) <= mt.top_k
        /\ \A i \in 1..Len(mt.results) :
              LET r == mt.results[i]
              IN  /\ r.component_scores.vector \in 0..1000
                  /\ r.component_scores.bm25 \in 0..1000
                  /\ r.component_scores.llm \in 0..1000
                  /\ r.score \in 0..(1000 * 1000 * 1000)

(***************************************************************************)
(* DocumentCostTracker under concurrent callers.  The class holds a plain  *)
(* dict and no lock; a thread may be suspended between any two statements  *)
(* of a method.  record_cost reads the current cost (lines 56-57) and      *)
(* stores the sum (line 59); reset_document tests the key (line 101) and   *)
(* deletes it (line 102).                                                  *)
(***************************************************************************)
Threads == {1, 2}
TrkTags == {"doc_a", "doc_b"}
TrkAmounts == {1, 2}
TrkMaxCalls == 3

IdleThread ==
    [pc |-> "idle", op |-> "none", document_id |-> "doc_a", actual_cost |-> 0,
     new_cost |-> 0]

TrackerStep(next) ==
    /\ trk' = next
    /\ UNCHANGED <<budget, cache, embCache, ledger, rtRecords, messages,
                   upstream, calls, tagCharged, last, prev, shr, flt, bm, mt,
                   rag, oracle, pl, hk>>

\* record_cost, lines 56-57: current_cost is read and new_cost computed
RecordRead(t, document_id, actual_cost) ==
    /\ trk.threads[t].pc = "idle"
    /\ trk.calls < TrkMaxCalls
    /\ TrackerStep([trk EXCEPT
          !.calls = @ + 1,
          !.threads[t] = [pc |-> "store", op |-> "record_cost",
                          document_id |-> document_id,
                          actual_cost |-> actual_cost,
                          new_cost |-> get_document_cost(document_costs,
                                           document_id) + actual_cost]])
    /\ UNCHANGED document_costs

\* record_cost, line 59: self.document_costs[document_id] = new_cost
RecordStore(t) ==
    /\ trk.threads[t].pc = "store"
    /\ document_costs' =
          [d \in DOMAIN document_costs \cup {trk.threads[t].document_id} |->
             IF d = trk.threads[t].document_id THEN trk.threads[t].new_cost
             ELSE document_costs[d]]
    /\ TrackerStep([trk EXCEPT
          !.threads[t].pc = "idle",
          !.recorded[trk.threads[t].document_id] =
              @ + trk.threads[t].actual_cost])

\* reset_document, line 101: if document_id in self.document_costs
ResetTest(t, document_id) ==
    /\ trk.threads[t].pc = "idle"
    /\ trk.calls < TrkMaxCalls
    /\ TrackerStep([trk EXCEPT
          !.calls = @ + 1,
          !.resets[document_id] = @ + 1,
          !.threads[t] = [IdleThread EXCEPT
                             !.pc = IF document_id \in DOMAIN document_costs
                                    THEN "del" ELSE "idle",
                             !.op = "reset_document",
                             !.document_id = document_id]])
    /\ UNCHANGED document_costs

\* reset_document, line 102: del self.document_costs[document_id]; the
\* statement raises KeyError when another thread removed the key meanwhile
ResetDel(t) ==
    /\ trk.threads[t].pc = "del"
    /\ document_costs' =
          [d \in DOMAIN document_costs \ {trk.threads[t].document_id} |->
             document_costs[d]]
    /\ TrackerStep([trk EXCEPT
          !.threads[t].pc = "idle",
          !.threads[t].op =
              IF trk.threads[t].document_id \in DOMAIN document_costs
              THEN "reset_document" ELSE "KeyError"])

InitTracker ==
    /\ budget = DefaultBudget
    /\ InitClient
    /\ shr = ShrIdle
    /\ flt = Idle
    /\ bm = Idle
    /\ mt = Idle
    /\ rag = Idle
    /\ oracle = Idle
    /\ pl = Idle
    /\ hk = Idle
    /\ trk = [pc |-> "run", calls |-> 0,
              threads |-> [t \in Threads |-> IdleThread],
              recorded |-> [d \in TrkTags |-> 0],
              resets |-> [d \in TrkTags |-> 0]]

NextTracker ==
    \/ \E t \in Threads, d \in TrkTags, a \in TrkAmounts : RecordRead(t, d, a)
    \/ \E t \in Threads : RecordStore(t)
    \/ \E t \in Threads, d \in TrkTags : ResetTest(t, d)
    \/ \E t \in Threads : ResetDel(t)

SpecTracker == InitTracker /\ [][NextTracker]_vars

\* C21, as stated: whatever the interleaving of record calls on one tag,
\* once they have all returned the tag's cumulative value is the previous
\* value (here 0, no reset having been called on the tag) plus the sum of
\* the amounts recorded
C21_NoLostUpdate ==
    trk.pc = "run" =>
        \A d \in TrkTags :
           ( /\ trk.resets[d] = 0
             /\ \A t \in Threads : trk.threads[t].pc = "idle" )
           => get_document_cost(document_costs, d) = trk.recorded[d]

(***************************************************************************)
(* Harness for plan_output_tokens: the arguments are drawn from bounded    *)
(* sets, the call computes the plan.  Prices are per token and the budget  *)
(* is in the same unit.                                                    *)
(***************************************************************************)
PlMaxTokens == 4
PlMaxPrice == 3
PlMaxBudget == 6
PlMaxCap == 3

InitPlanInput ==
    pl \in { [pc |-> "call", tokens_in |-> n, price_in_per_million |-> pi,
              price_out_per_million |-> po, budget_eur |-> b,
              hard_cap_out |-> cap, plan |-> <<0, FALSE>>] :
               n \in 0..PlMaxTokens, pi \in 1..PlMaxPrice,
               po \in 1..PlMaxPrice, b \in 0..PlMaxBudget,
               cap \in 1..PlMaxCap }

PlanCall ==
    /\ pl.pc = "call"
    /\ pl' = [pl EXCEPT
                !.pc = "done",
                !.plan = plan_output_tokens(pl.tokens_in,
                             pl.price_in_per_million, pl.price_out_per_million,
                             pl.budget_eur, pl.hard_cap_out)]

InitPlan ==
    /\ budget = DefaultBudget
    /\ InitClient
    /\ shr = ShrIdle
    /\ flt = Idle
    /\ bm = Idle
    /\ mt = Idle
    /\ rag = Idle
    /\ oracle = Idle
    /\ trk = Idle
    /\ hk = Idle
    /\ InitPlanInput

NextPlan ==
    PlanCall /\ UNCHANGED <<clientVars, shr, flt, bm, mt, rag, oracle, trk, hk>>

SpecPlan == InitPlan /\ [][NextPlan]_vars

\* C24, as stated: the plan is (0, false) when the input cost reaches the
\* budget; otherwise max_output_tokens is the smaller of the hard cap and
\* the whole number of output tokens the remaining budget buys, and fits
\* says whether that number is positive
C24_PlannerResult ==
    pl.pc = "done" =>
        LET cost_in == pl.tokens_in * pl.price_in_per_million
            max_output_tokens ==
                Min({pl.hard_cap_out,
                     (pl.budget_eur - cost_in) \div pl.price_out_per_million})
        IN  IF cost_in >= pl.budget_eur THEN pl.plan = <<0, FALSE>>
            ELSE pl.plan = <<max_output_tokens, max_output_tokens > 0>>

(***************************************************************************)
(* Harness for OpenAICache.get_llm_response and save_llm_response: the     *)
(* table llm_cache is a function from cache keys to rows; (prompt, model,  *)
(* params) triples are drawn from a small set in which a model name and a  *)
(* prompt contain the separator "::".                                      *)
(***************************************************************************)
HkMaxCalls == 2

HkModels == {"gpt-4o-mini", "gpt-4o-mini::user: a"}

HkPrompts ==
    { _messages_to_text(<<Msg("user", FromString("b"))>>),
      _messages_to_text(<<Msg("user", FromString("a::user: b"))>>) }

HkParams ==
    { [temperature |-> 0, max_tokens |-> cap, response_format |-> None,
       document_id |-> {}] : cap \in {{}, {800}} }

HkTriples ==
    { [prompt |-> p, model |-> m, params |-> q] :
        p \in HkPrompts, m \in HkModels, q \in HkParams }

\* lines 102-162: the row found under the key, as a set holding at most one
\* element, and the table with the row's access count raised
get_llm_response(table, prompt, model, params) ==
    Bind(_hash_prompt(prompt, model, params), LAMBDA cache_key :
      IF cache_key \in DOMAIN table
      THEN [row |-> {table[cache_key]},
            table |-> [table EXCEPT ![cache_key].access_count = @ + 1]]
      ELSE [row |-> {}, table |-> table])

\* lines 164-218: INSERT OR REPLACE of the row under the key
save_llm_response(table, prompt, model, params, response) ==
    Bind(_hash_prompt(prompt, model, params), LAMBDA cache_key :
      [k \in DOMAIN table \cup {cache_key} |->
         IF k = cache_key
         THEN [model |-> model, prompt_hash |-> prompt,
               response_text |-> response, access_count |-> 1]
         ELSE table[k]])

\* one call of save_llm_response; by remembers the triple of each row
HkSave ==
    /\ hk.pc = "run"
    /\ hk.calls < HkMaxCalls
    /\ \E t \in HkTriples, response \in UpstreamTexts :
          hk' = [pc |-> "run", calls |-> hk.calls + 1,
                 table |-> save_llm_response(hk.table, t.prompt, t.model,
                                             t.params, response),
                 by |-> [k \in DOMAIN hk.by
                              \cup {_hash_prompt(t.prompt, t.model, t.params)}
                         |-> IF k = _hash_prompt(t.prompt, t.model, t.params)
                             THEN t ELSE hk.by[k]],
                 asked |-> {}, row |-> {}]

\* the state after a call of get_llm_response for t that returned g
HkGot(t, g) ==
    hk' = [pc |-> "run", calls |-> hk.calls + 1, table |-> g.table,
           by |-> hk.by, asked |-> {t}, row |-> g.row]

\* one call of get_llm_response
HkGet ==
    /\ hk.pc = "run"
    /\ hk.calls < HkMaxCalls
    /\ \E t \in HkTriples :
          HkGot(t, get_llm_response(hk.table, t.prompt, t.model, t.params))

InitHash ==
    /\ budget = DefaultBudget
    /\ InitClient
    /\ shr = ShrIdle
    /\ flt = Idle
    /\ bm = Idle
    /\ mt = Idle
    /\ rag = Idle
    /\ oracle = Idle
    /\ trk = Idle
    /\ pl = Idle
    /\ hk = [pc |-> "run", calls |-> 0, table |-> <<>>, by |-> <<>>,
             asked |-> {}, row |-> {}]

NextHash ==
    \/ HkSave /\ UNCHANGED <<clientVars, shr, flt, bm, mt, rag, oracle, trk, pl>>
    \/ HkGet /\ UNCHANGED <<clientVars, shr, flt, bm, mt, rag, oracle, trk, pl>>

SpecHash == InitHash /\ [][NextHash]_vars

\* C30, as stated: a row saved for one (model, prompt, params) triple is
\* never returned by a get for a different triple, also when the model name
\* or the prompt contains the separator "::"
C30_KeySeparation ==
    (hk.pc = "run" /\ hk.row # {}) =>
        \A t \in hk.asked :
           hk.by[_hash_prompt(t.prompt, t.model, t.params)] = t

====
